---- MODULE Spec2Model ----
(***************************************************************************)
(* AnkiAutoImage: the provider chain of the batch run                      *)
(* (BackfillImagesDialog._on_run), its candidate selection, the Google     *)
(* quota file and the command-line fetcher (test_fetch_images.py).         *)
(*                                                                         *)
(* Text is modelled as a sequence of one-character strings wherever the    *)
(* code takes it apart (URLs, file names); messages that are only built    *)
(* and compared are TLA+ strings.                                          *)
(***************************************************************************)
EXTENDS Integers, Sequences, FiniteSets, TLC

VARIABLES
    \* ---- the selector run over one candidate list (tools.py 620-636)
    sel_cands,      \* candidates
    sel_used,       \* used_urls
    sel_key,        \* nid of the last selection
    sel_before,     \* used_urls as the last selection saw it
    sel_pick,       \* pick of the last selection
    sel_picks,      \* the picks whose download succeeded, in order
    sel_runs,       \* selections made so far
    sel_memo        \* one earlier selection, remembered: [key, used, pick]

selVars == <<sel_cands, sel_used, sel_key, sel_before, sel_pick, sel_picks,
             sel_runs, sel_memo>>

VARIABLES
    \* ---- configuration and collaborators of a batch run (_on_run)
    provider_mode,  \* the provider chosen in the dialog
    provider_order, \* cfg["provider_preference"]
    google_client,  \* TRUE: a GoogleCSEClient, FALSE: None
    replace,        \* replace_chk
    nids,           \* the note ids of the run
    store,          \* the notes flushed to the collection, by note id
    media,          \* the names of the media files written
    log,            \* the error lines logged
    \* ---- locals of _on_run
    pc,             \* "idle", "loop", "providers", "write", "done"
    i,              \* notes taken from nids so far
    nid,            \* the current note id
    note,           \* the current note: [query, target]
    p,              \* position in provider_order of the provider tried next
    content,
    filename_hint,
    last_error,
    used_urls,
    google_used_in_run,
    updated,
    empty_queries,
    called,         \* the providers whose client was called for this note
    caught,         \* what the exception caught in the last provider turn
                    \* said, None when that turn raised nothing
    \* ---- the other provider modes and the settings file
    nadeshiko_api_key,  \* TRUE: cfg["nadeshiko_api_key"] is set
    genai_api_key,      \* TRUE: cfg["google_genai_api_key"] or the
                        \* environment's GEMINI_API_KEY is set
    nade_no_result,
    last_settings   \* last_settings.json: the modes it holds settings of

keyVars == <<nadeshiko_api_key, genai_api_key>>

modeVars == <<keyVars, nade_no_result, last_settings>>

batchVars == <<provider_mode, provider_order, google_client, replace, nids,
               store, media, log, pc, i, nid, note, p, content,
               filename_hint, last_error, used_urls, google_used_in_run,
               updated, empty_queries, called, caught, modeVars>>

VARIABLES
    \* ---- the command-line fetcher: main() of test_fetch_images.py
    cli_pc,         \* "off", "main", "done", "crashed"
    count,          \* args.count
    pexels_api_key, \* TRUE: cfg["pexels_api_key"] is set
    cli_pos,        \* position in the order of the provider tried next
    saved,
    cli_called      \* the providers whose client was called

cliVars == <<cli_pc, count, pexels_api_key, cli_pos, saved, cli_called>>

VARIABLES
    \* ---- the quota file and the clock
    quota_file,     \* quota.json: NoFile or [date, google_used]
    today,          \* the current Pacific day, as a day number
    quota_label,    \* the count the dialog's quota label shows, if any
    quota_op        \* the last operation on the quota: its name, its inc
                    \* and whether its write to the file went through

quotaVars == <<quota_file, today, quota_label, quota_op>>

VARIABLES
    \* ---- field writes on one note (anki_util.py 76-96)
    fw_note,        \* the note
    fw_before,      \* the note before the last write
    fw_call,        \* the last write: [kind, field, name, rep]
    fw_ret          \* what the last write returned

fieldVars == <<fw_note, fw_before, fw_call, fw_ret>>

VARIABLES
    \* ---- the reviewer's quick-add (tools.py 780-846)
    card,           \* the note of the reviewer's current card
    qa_msg,         \* what the last quick-add told the user
    qa_calls,       \* the searches quick-adds sent to Google
    qa_runs,        \* the quick-adds made
    qa_last         \* the locals of the last quick-add: which one it was,
                    \* the note as loaded and as the action left it in
                    \* memory, the media names it stored, whether it raised

quickVars == <<card, qa_msg, qa_calls, qa_runs, qa_last>>

VARIABLES
    \* ---- the dialog's Cancel button (tools.py 226-236)
    abort_requested     \* Cancel was clicked while a batch run was going

hostVars == <<abort_requested>>

VARIABLES
    \* ---- two processes at the quota file (tools.py 123-131, 762-779)
    procs,          \* each process's place in its increment and its locals
    race_start,     \* today's stored count before the two increments
    race_overlap    \* one process read the file while the other was between
                    \* its read and the end of its write

raceVars == <<procs, race_start, race_overlap>>

VARIABLES
    \* ---- the provider clients called on their own
    sc,             \* a search of the DuckDuckGo or Yahoo client: its
                    \* arguments, its locals and where it stands
    px,             \* a call of PexelsApiClient.pick_best_src_url: its
                    \* arguments and what it returned
    ga              \* a call of GoogleGenAIClient.generate_images: where
                    \* it stands, its cfg, the configs it sent to the
                    \* backend, what it returned or raised

clientVars == <<sc, px, ga>>

\* the variables outside the batch run, the fetcher, the selector and the
\* quota
otherVars == <<fieldVars, quickVars, hostVars, raceVars, clientVars>>

vars == <<selVars, batchVars, cliVars, quotaVars, otherVars>>

---------------------------------------------------------------------------
(* Bounds *)

\* longest candidate list a search returns
MaxCands == 3
\* largest note id
MaxNid == 3
\* selections made over one candidate list
MaxRuns == 4
\* longest provider_preference list
MaxOrder == 2
\* longest result list a search returns during a batch run
MaxItems == 2
\* largest --count of the command-line fetcher
MaxCount == 2
\* last day of the clock
MaxDay == 3
\* largest google_used the quota file comes to hold
MaxUsed == 4
\* quick-adds made on one card
MaxQuick == 2
\* largest inc of the two racing increments
MaxInc == 2
\* largest max_results a search is called with
MaxResults == 2
\* most results on one page of a search
MaxPageItems == 2
\* pages of Yahoo results followed
MaxPages == 3
\* most keys of a photo's src map
MaxSrcKeys == 2

\* the step of Yahoo's "b" parameter from page to page
YahooPageSize == 60

\* the daily cap the quota label shows: "{used}/100"
QuotaCap == 100

---------------------------------------------------------------------------
(* Values *)

\* Optional[...]: None is <<>>, a value x is <<x>>
None == <<>>
Some(x) == <<x>>

\* Image URLs, as characters: one with an extension in its last segment,
\* one with a query string and no extension, one ending in "/".
U1 == <<"h", "/", "a", ".", "j">>
U2 == <<"h", "/", "b", "?", "x">>
U3 == <<"h", "/">>
Urls == {U1, U2, U3}

Nids == 1..MaxNid

\* sequences over S of length lo..hi
SeqsOf(S, lo, hi) == UNION {[1..n -> S] : n \in lo..hi}

Range(s) == {s[j] : j \in 1..Len(s)}

Min(S) == CHOOSE x \in S : \A y \in S : x <= y

---------------------------------------------------------------------------
(* Candidate selection: tools.py 620-628 (ddg), 647-655 (yahoo),           *)
(* 670-678 (google): the same loop three times.                            *)

\* the element of a Python list at a 0-based index
At(c, idx) == c[idx + 1]

\* for off in range(len(candidates)): the first cand not in used_urls, or
\* None when the loop runs out
RECURSIVE ScanFrom(_, _, _, _)
ScanFrom(c, start, off, used) ==
    IF off >= Len(c) THEN None
    ELSE LET cand == At(c, (start + off) % Len(c))
         IN  IF cand \notin used THEN Some(cand)
             ELSE ScanFrom(c, start, off + 1, used)

\* a selection that always starts at the head of the list
StartIndexZero(k, c) == 0

\* a selection whose start moves with the number of selections made
StartIndexByRun(k, c) == (k + sel_runs) % Len(c)

\* start = nid % len(candidates)
StartIndex(k, c) == k % Len(c)

\* a selection that never looks at used_urls
SelectIgnoringUsed(c, k, used) == At(c, StartIndex(k, c))

\* pick = the scan's result, or candidates[start] when the scan found none
SelectCandidate(c, k, used) ==
    LET start == StartIndex(k, c)
        pick  == ScanFrom(c, start, 0, used)
    IN  IF pick = None THEN At(c, start) ELSE pick[1]

---------------------------------------------------------------------------
(* Text: the pieces of str the code uses on URLs and file names.           *)

Whitespace == {" "}

Letters == {"a", "b", "c", "d", "e", "f", "g", "h", "i", "j", "k", "l", "m",
            "n", "o", "p", "q", "r", "s", "t", "u", "v", "w", "x", "y", "z",
            "A", "B", "C", "D", "E", "F", "G", "H", "I", "J", "K", "L", "M",
            "N", "O", "P", "Q", "R", "S", "T", "U", "V", "W", "X", "Y", "Z"}

Digits == {"0", "1", "2", "3", "4", "5", "6", "7", "8", "9"}

\* re.sub(r"[^A-Za-z0-9_.-]", "", name) keeps these
SafeChars == Letters \cup Digits \cup {"_", ".", "-"}

\* s.split(ch)[-1]: what follows the last ch, all of s when there is none
RECURSIVE AfterLast(_, _)
AfterLast(s, ch) ==
    IF \A j \in 1..Len(s) : s[j] # ch THEN s
    ELSE AfterLast(Tail(s), ch)

\* s.split(ch)[0]: what precedes the first ch, all of s when there is none
RECURSIVE BeforeFirst(_, _)
BeforeFirst(s, ch) ==
    IF s = <<>> \/ Head(s) = ch THEN <<>>
    ELSE <<Head(s)>> \o BeforeFirst(Tail(s), ch)

\* s.strip()
RECURSIVE LStrip(_)
LStrip(s) ==
    IF s # <<>> /\ Head(s) \in Whitespace THEN LStrip(Tail(s)) ELSE s

RECURSIVE RStrip(_)
RStrip(s) ==
    IF s # <<>> /\ s[Len(s)] \in Whitespace
    THEN RStrip(SubSeq(s, 1, Len(s) - 1)) ELSE s

Strip(s) == LStrip(RStrip(s))

\* int(time.time()) as text: whatever the clock gives, one token here
TimeStamp == <<"T">>

\* anki_util.ensure_media_filename_safe
ensure_media_filename_safe(name) ==
    LET stripped == Strip(name)
        under    == [j \in 1..Len(stripped) |->
                        IF stripped[j] = " " THEN "_" ELSE stripped[j]]
        kept     == SelectSeq(under, LAMBDA ch : ch \in SafeChars)
    IN  IF kept # <<>> THEN kept
        ELSE <<"i", "m", "a", "g", "e", "_">> \o TimeStamp
             \o <<".", "j", "p", "g">>

\* pick.split("/")[-1].split("?")[0]
UrlTail(url) == BeforeFirst(AfterLast(url, "/"), "?")

\* f"<prefix>_{nid}.jpg"
DefaultName(prefix, n) == prefix \o <<"_", ToString(n)>> \o <<".", "j", "p", "g">>

\* tools.py 631-634: the ddg branch also replaces a tail without a "."
DdgFilenameHint(pick, n) ==
    LET tail == UrlTail(pick)
    IN  ensure_media_filename_safe(
            IF tail = <<>> \/ "." \notin Range(tail)
            THEN DefaultName(<<"d", "d", "g">>, n) ELSE tail)

\* tools.py 658-659
YahooFilenameHint(pick, n) ==
    LET tail == UrlTail(pick)
    IN  ensure_media_filename_safe(
            IF tail = <<>> THEN DefaultName(<<"y", "a", "h", "o", "o">>, n)
            ELSE tail)

\* tools.py 682-683
GoogleFilenameHint(pick, n) ==
    LET tail == UrlTail(pick)
    IN  ensure_media_filename_safe(
            IF tail = <<>> THEN DefaultName(<<"g", "o", "o", "g", "l", "e">>, n)
            ELSE tail)

---------------------------------------------------------------------------
(* The note and its fields (anki_util.py).                                 *)

\* A note is a function from the names of its fields to their text.
\* field text is a sequence of pieces; <<>> is the empty string
OldText == <<"old">>
ImgTag(media_filename) == <<"<img src=", media_filename, ">">>

\* a lookup that answers with the field's name when the field is absent
get_field_value_or_name(n, field_name) ==
    IF field_name \in DOMAIN n THEN n[field_name] ELSE <<field_name>>

\* anki_util.get_field_value: "" when the field is absent
get_field_value(n, field_name) ==
    IF field_name \in DOMAIN n THEN n[field_name] ELSE <<>>

\* a field write that appends to a filled field when told to replace
add_image_appending(n, field_name, media_filename, rep) ==
    IF field_name \notin DOMAIN n THEN [changed |-> FALSE, note |-> n]
    ELSE LET img_tag == ImgTag(media_filename)
             cur     == n[field_name]
         IN  IF cur # <<>> /\ ~rep THEN [changed |-> FALSE, note |-> n]
             ELSE [changed |-> TRUE,
                   note |-> [n EXCEPT ![field_name] =
                                IF cur = <<>> THEN img_tag
                                ELSE cur \o <<"<br>">> \o img_tag]]

\* a field write that reports a change whatever it did
add_image_reporting_always(n, field_name, media_filename, rep) ==
    IF field_name \notin DOMAIN n THEN [changed |-> TRUE, note |-> n]
    ELSE LET img_tag == ImgTag(media_filename)
             cur     == n[field_name]
         IN  IF cur # <<>> /\ ~rep THEN [changed |-> TRUE, note |-> n]
             ELSE [changed |-> TRUE,
                   note |-> [n EXCEPT ![field_name] = img_tag]]

\* anki_util.add_image_to_note: whether it changed the note, and the note
add_image_to_note(n, field_name, media_filename, rep) ==
    IF field_name \notin DOMAIN n THEN [changed |-> FALSE, note |-> n]
    ELSE LET img_tag == ImgTag(media_filename)
             cur     == n[field_name]
         IN  IF cur # <<>> /\ ~rep THEN [changed |-> FALSE, note |-> n]
             ELSE [changed |-> TRUE,
                   note |-> [n EXCEPT ![field_name] =
                                IF rep \/ cur = <<>> THEN img_tag
                                ELSE cur \o <<"<br>">> \o img_tag]]

AudioTag(media_filename) == <<"[sound:", media_filename, "]">>

\* anki_util.add_audio_to_note: whether it changed the note, and the note
add_audio_to_note(n, field_name, media_filename, rep) ==
    IF field_name \notin DOMAIN n THEN [changed |-> FALSE, note |-> n]
    ELSE LET audio_tag == AudioTag(media_filename)
             cur       == n[field_name]
         IN  IF cur # <<>> /\ ~rep THEN [changed |-> FALSE, note |-> n]
             ELSE [changed |-> TRUE,
                   note |-> [n EXCEPT ![field_name] =
                                IF rep \/ cur = <<>> THEN audio_tag
                                ELSE cur \o <<"\n">> \o audio_tag]]

\* the names of the query field and the target field chosen in the dialog
QueryField == "Expression"
TargetField == "Picture"

\* the notes a run can load: the query field absent, empty or filled, and
\* with a filled query field the target field absent, empty or filled
Notes ==
    {[f \in {TargetField} |-> <<>>],
     [f \in {QueryField, TargetField} |-> <<>>],
     [f \in {QueryField} |-> <<"neko">>],
     [f \in {QueryField, TargetField} |->
         IF f = QueryField THEN <<"neko">> ELSE <<>>],
     [f \in {QueryField, TargetField} |->
         IF f = QueryField THEN <<"neko">> ELSE OldText]}

\* the fields chosen for Nadeshiko: nade_image_field, nade_audio_field,
\* nade_sentence_field
ImageField == "Picture"
AudioField == "Audio"
SentenceField == "Sentence"

\* a note with the given text in the given fields and "neko" to look up
NoteWith(fields, text) ==
    [f \in fields \cup {QueryField} |->
        IF f = QueryField THEN <<"neko">> ELSE text]

\* the notes a Nadeshiko run can load: an empty query field; all three
\* fields empty; all three filled; only the image field; no image field
NadeNotes ==
    {[f \in {QueryField, ImageField} |-> <<>>],
     NoteWith({ImageField, AudioField, SentenceField}, <<>>),
     NoteWith({ImageField, AudioField, SentenceField}, OldText),
     NoteWith({ImageField}, <<>>),
     NoteWith({AudioField, SentenceField}, OldText)}

NotesOf(mode) == IF mode = "nadeshiko" THEN NadeNotes ELSE Notes

\* no note loaded yet
NoNote == <<>>

\* no quick-add made yet
NoQuick == [kind |-> "none", before |-> NoNote, note |-> NoNote,
            image |-> <<>>, audio |-> <<>>, raised |-> FALSE]

\* no reviewer
QuickOff ==
    /\ card = NoNote
    /\ qa_msg = ""
    /\ qa_calls = 0
    /\ qa_runs = 0
    /\ qa_last = NoQuick

\* Cancel not clicked
HostIdle == abort_requested = FALSE

\* no process at the quota file
RaceIdle ==
    /\ procs = <<>>
    /\ race_start = 0
    /\ race_overlap = FALSE

\* no search going
NoSearch == [kind |-> "none", pc |-> "off", max |-> 0, urls |-> <<>>,
             start |-> 0, result |-> <<>>]

\* no pick_best_src_url called
NoPick == [pc |-> "off", src |-> <<>>, preferred |-> "", ret |-> <<>>]

\* no client called
\* generate_images not called
NoGen == [pc |-> "off", cfg |-> {}, sent |-> <<>>, ret |-> 0, exc |-> <<>>]

ClientsIdle == sc = NoSearch /\ px = NoPick /\ ga = NoGen

\* what stands still in every program below unless the program is its own
RestIdle == HostIdle /\ RaceIdle /\ ClientsIdle

\* no field write made yet
NoCall == [kind |-> "none", field |-> "", name |-> <<>>, rep |-> FALSE]

FieldIdle ==
    /\ fw_note = NoNote
    /\ fw_before = NoNote
    /\ fw_call = NoCall
    /\ fw_ret = FALSE

---------------------------------------------------------------------------
(* The quota file (tools.py 82-131).                                       *)

\* quota.json: <<>> when it is missing or unreadable, else <<record>>
NoFile == <<>>

FreshQuota(day) == [date |-> day, google_used |-> 0]

\* BackfillImagesDialog._read_quota: the stored record as it is, or a fresh
\* one when the file cannot be read
read_quota(file, day) ==
    IF file = NoFile THEN FreshQuota(day) ELSE file[1]

\* BackfillImagesDialog._write_quota: a failed write is passed over
write_quota(file, data, ok) == IF ok THEN <<data>> ELSE file

\* the reset left out: the stored record is used as it is
KeepStored(q, day) == q

\* "if q.get("date") != today: q = {...}" (tools.py 112-113, 128-129,
\* 772-773)
ResetIfNewDay(q, day) ==
    IF q.date # day THEN FreshQuota(day) ELSE q

\* an increment that writes inc over the stored count
increment_forgetting(file, day, inc, ok) ==
    IF inc <= 0 THEN file
    ELSE write_quota(file, [date |-> day, google_used |-> inc], ok)

\* an increment without its "if inc <= 0: return"
increment_unguarded(file, day, inc, ok) ==
    LET q == ResetIfNewDay(read_quota(file, day), day)
    IN  write_quota(file, [q EXCEPT !.google_used = @ + inc], ok)

\* BackfillImagesDialog._increment_google_quota: the file it leaves
increment_google_quota(file, day, inc, ok) ==
    IF inc <= 0 THEN file
    ELSE LET q == ResetIfNewDay(read_quota(file, day), day)
         IN  write_quota(file, [q EXCEPT !.google_used = @ + inc], ok)

\* _increment_google_quota_global, the quick-add's increment: the file it
\* leaves
increment_google_quota_global(file, day, inc, ok) ==
    IF inc <= 0 THEN file
    ELSE LET q == IF file = NoFile THEN FreshQuota(day)
                  ELSE ResetIfNewDay(file[1], day)
         IN  write_quota(file, [q EXCEPT !.google_used = @ + inc], ok)

\* BackfillImagesDialog._get_quota_display: the file it leaves and the
\* count it shows
get_quota_display(file, day, ok) ==
    LET q0 == read_quota(file, day)
        q  == ResetIfNewDay(q0, day)
    IN  [file |-> IF q # q0 THEN write_quota(file, q, ok) ELSE file,
         used |-> q.google_used]

---------------------------------------------------------------------------
(* The batch run: BackfillImagesDialog._on_run (tools.py 456-754), in the  *)
(* image-search mode (the else branch at line 610).                        *)

Providers == {"ddg", "yahoo", "google", "pexels"}

\* the notes of the run: get_deck_note_ids / get_selected_note_ids
RunNids == <<1, 2>>

\* what an exception raised by a client says
Causes == {"timeout"}

\* what a download does: it returns, or raises with a cause
Downloads == {"ok"} \cup Causes

\* str(ZeroDivisionError) of "nid % 0"
ZeroDivision == "integer division or modulo by zero"

\* a search result without an image URL
NoUrl == <<>>

\* provider_preference lists: no provider twice
Orders == {o \in SeqsOf(Providers, 1, MaxOrder) :
              \A a, b \in 1..Len(o) : a # b => o[a] # o[b]}

\* what download_image returns for a URL fetched through a provider's client
Bytes(provider, url) == <<provider, url>>

\* col.media.write_data: the name the file is stored under (the media
\* folder's renaming of a clashing name is the collection's business)
write_data(name, data) == name

\* the locals of _on_run before a run
BatchFresh ==
    /\ store = <<>>
    /\ media = {}
    /\ log = <<>>
    /\ i = 0
    /\ nid = 0
    /\ note = NoNote
    /\ p = 0
    /\ content = None
    /\ filename_hint = None
    /\ last_error = None
    /\ used_urls = {}
    /\ google_used_in_run = 0
    /\ updated = 0
    /\ empty_queries = 0
    /\ called = <<>>
    /\ caught = None
    /\ nade_no_result = 0
    /\ last_settings = {}

\* config.json without provider_preference and without the google keys
\* (tools.py 459: the order defaults to ["ddg"])
SelConfig ==
    /\ provider_order = <<"ddg">>
    /\ google_client = FALSE

\* config.json without nadeshiko_api_key and google_genai_api_key
NoKeys ==
    /\ nadeshiko_api_key = FALSE
    /\ genai_api_key = FALSE

\* config.json as both programs read it: provider_preference, and whether
\* google_api_key and google_cx are both set
Config ==
    /\ provider_order \in Orders
    /\ google_client \in BOOLEAN

\* provider_combo (tools.py 166), lower-cased: "google" is the image search
Modes == {"google", "gemini", "nadeshiko"}

\* the mode chosen in the dialog with the configuration that matters to it
ModeInit ==
    \/ /\ provider_mode = "google"
       /\ Config
       /\ NoKeys
    \/ /\ provider_mode = "gemini"
       /\ SelConfig
       /\ genai_api_key \in BOOLEAN
       /\ nadeshiko_api_key = FALSE
    \/ /\ provider_mode = "nadeshiko"
       /\ SelConfig
       /\ nadeshiko_api_key \in BOOLEAN
       /\ genai_api_key = FALSE

\* the dialog is open over the notes of RunNids
BatchInit ==
    /\ ModeInit
    /\ replace \in BOOLEAN
    /\ nids = RunNids
    /\ pc = "idle"
    /\ BatchFresh

\* no batch run
BatchStopped ==
    /\ provider_mode = "google"
    /\ nids = <<>>
    /\ pc = "off"
    /\ BatchFresh

\* no dialog
BatchOff ==
    /\ BatchStopped
    /\ NoKeys
    /\ replace = FALSE

\* the credential test left out
NeverMissing == FALSE

\* tools.py 475-484: the selected mode lacks its credential
MissingCredential ==
    \/ provider_mode = "nadeshiko" /\ ~nadeshiko_api_key
    \/ provider_mode = "gemini" /\ ~genai_api_key

\* tools.py 475-484: showWarning and return, before anything is read
AbortRun ==
    /\ pc = "idle"
    /\ MissingCredential
    /\ pc' = "aborted"
    /\ UNCHANGED <<provider_mode, provider_order, google_client, replace,
                   nids, store, media, log, i, nid, note, p, content,
                   filename_hint, last_error, used_urls, google_used_in_run,
                   updated, empty_queries, called, caught, modeVars,
                   quotaVars, cliVars, selVars, otherVars>>

\* tools.py 456-515: the run starts with its counters and used_urls fresh
RunStart ==
    /\ pc = "idle"
    /\ ~MissingCredential
    /\ pc' = "loop"
    /\ updated' = 0
    /\ empty_queries' = 0
    /\ used_urls' = {}
    /\ google_used_in_run' = 0
    /\ nade_no_result' = 0
    /\ i' = 0
    /\ UNCHANGED <<provider_mode, provider_order, google_client, replace,
                   nids, store, media, log, nid, note, p, content,
                   filename_hint, last_error, called, caught, keyVars,
                   last_settings, quotaVars, cliVars, selVars, otherVars>>

\* tools.py 516-535: the next note is loaded; an empty query skips it
NextKey(n) ==
    /\ pc = "loop"
    /\ i < Len(nids)
    /\ i' = i + 1
    /\ nid' = nids[i + 1]
    /\ note' = n
    /\ IF get_field_value(n, QueryField) = <<>>
       THEN /\ empty_queries' = empty_queries + 1
            /\ UNCHANGED <<pc, p, content, filename_hint, last_error, called,
                           caught>>
       ELSE /\ pc' = CASE provider_mode = "nadeshiko" -> "nadeshiko"
                        [] provider_mode = "gemini" -> "gemini"
                        [] OTHER -> "providers"
            /\ p' = 1
            /\ content' = None
            /\ filename_hint' = None
            /\ last_error' = None
            /\ called' = <<>>
            /\ caught' = None
            /\ UNCHANGED empty_queries
    /\ UNCHANGED <<provider_mode, provider_order, google_client, replace,
                   nids, store, media, log, used_urls, google_used_in_run,
                   updated, modeVars, quotaVars, cliVars, selVars, otherVars>>

\* the "break" left out: the loop goes on after a payload
AfterSuccessGoesOn(pos) ==
    [pc |-> IF pos + 1 > Len(provider_order) THEN "write" ELSE "providers",
     p  |-> pos + 1]

\* "break": the provider loop is left
AfterSuccess(pos) == [pc |-> "write", p |-> pos]

\* the loop goes on to the next provider, or ends after the last one
AfterFailure(pos) ==
    [pc |-> IF pos + 1 > Len(provider_order) THEN "write" ELSE "providers",
     p  |-> pos + 1]

\* "except Exception as e: last_error = f"<label>: {e}""
ErrorText(label, cause) == label \o ": " \o cause

\* [u for u in candidates if u], after .strip()
UsableUrls(items) ==
    SelectSeq([j \in 1..Len(items) |-> Strip(items[j])], LAMBDA u : u # <<>>)

\* the provider's turn ended without a payload and without an exception:
\* nothing is assigned
ProviderEmpty ==
    /\ caught' = None
    /\ pc' = AfterFailure(p).pc
    /\ p' = AfterFailure(p).p
    /\ UNCHANGED <<content, filename_hint, last_error, used_urls,
                   google_used_in_run>>

\* the except clause with "pass" for its body: nothing is recorded
ProviderRaisedUnrecorded(label, cause) ==
    /\ caught' = Some(cause)
    /\ pc' = AfterFailure(p).pc
    /\ p' = AfterFailure(p).p
    /\ UNCHANGED <<content, filename_hint, last_error, used_urls,
                   google_used_in_run>>

\* an exception was caught: last_error = f"<label>: {e}"
ProviderRaised(label, cause) ==
    /\ caught' = Some(cause)
    /\ last_error' = Some(ErrorText(label, cause))
    /\ pc' = AfterFailure(p).pc
    /\ p' = AfterFailure(p).p
    /\ UNCHANGED <<content, filename_hint, used_urls, google_used_in_run>>

\* "used_urls.add(pick)" left out
ProviderSucceededNoDedup(provider, pick, hint) ==
    /\ caught' = None
    /\ content' = Some(Bytes(provider, pick))
    /\ filename_hint' = Some(hint)
    /\ google_used_in_run' =
           IF provider = "google" THEN google_used_in_run + 1
           ELSE google_used_in_run
    /\ pc' = AfterSuccess(p).pc
    /\ p' = AfterSuccess(p).p
    /\ UNCHANGED <<last_error, used_urls>>

\* the assignment of filename_hint left out
ProviderSucceededNoHint(provider, pick, hint) ==
    /\ caught' = None
    /\ content' = Some(Bytes(provider, pick))
    /\ used_urls' = used_urls \cup {pick}
    /\ google_used_in_run' =
           IF provider = "google" THEN google_used_in_run + 1
           ELSE google_used_in_run
    /\ pc' = AfterSuccess(p).pc
    /\ p' = AfterSuccess(p).p
    /\ UNCHANGED <<last_error, filename_hint>>

\* every provider's payload counted against the quota
ProviderSucceededCountingAll(provider, pick, hint) ==
    /\ caught' = None
    /\ content' = Some(Bytes(provider, pick))
    /\ filename_hint' = Some(hint)
    /\ used_urls' = used_urls \cup {pick}
    /\ google_used_in_run' = google_used_in_run + 1
    /\ pc' = AfterSuccess(p).pc
    /\ p' = AfterSuccess(p).p
    /\ UNCHANGED last_error

\* the provider's turn ended with a payload
ProviderSucceeded(provider, pick, hint) ==
    /\ caught' = None
    /\ content' = Some(Bytes(provider, pick))
    /\ filename_hint' = Some(hint)
    /\ used_urls' = used_urls \cup {pick}
    /\ google_used_in_run' =
           IF provider = "google" THEN google_used_in_run + 1
           ELSE google_used_in_run
    /\ pc' = AfterSuccess(p).pc
    /\ p' = AfterSuccess(p).p
    /\ UNCHANGED last_error

ProviderFrame ==
    UNCHANGED <<provider_mode, provider_order, google_client, replace, nids,
                store, media, log, i, nid, note, updated, empty_queries,
                modeVars, quotaVars, cliVars, selVars, otherVars>>

\* tools.py 612-638. search: "raise" or the items returned; dl: "ok" or
\* the cause download_image raised
TryDdg(search, cause, items, dl) ==
    /\ pc = "providers"
    /\ p <= Len(provider_order)
    /\ provider_order[p] = "ddg"
    /\ called' = Append(called, "ddg")
    /\ IF search = "raise" THEN ProviderRaised("DDG", cause)
       ELSE IF items = <<>> THEN ProviderEmpty
       ELSE IF UsableUrls(items) = <<>>
            THEN ProviderRaised("DDG", "no image url")
       ELSE LET pick == SelectCandidate(UsableUrls(items), nid, used_urls)
            IN  IF dl = "ok"
                THEN ProviderSucceeded("ddg", pick, DdgFilenameHint(pick, nid))
                ELSE ProviderRaised("DDG", dl)
    /\ ProviderFrame

\* the yahoo branch with a set of its own, which holds nothing of the other
\* providers
TryYahooOwnSet(search, cause, urls, dl) ==
    /\ pc = "providers"
    /\ p <= Len(provider_order)
    /\ provider_order[p] = "yahoo"
    /\ called' = Append(called, "yahoo")
    /\ IF search = "raise" THEN ProviderRaised("Yahoo", cause)
       ELSE IF urls = <<>> THEN ProviderEmpty
       ELSE LET pick == SelectCandidate(urls, nid, {})
            IN  IF dl = "ok"
                THEN ProviderSucceeded("yahoo", pick,
                                       YahooFilenameHint(pick, nid))
                ELSE ProviderRaised("Yahoo", dl)
    /\ ProviderFrame

\* tools.py 639-663. urls: what the browser provider or the scraper found
TryYahoo(search, cause, urls, dl) ==
    /\ pc = "providers"
    /\ p <= Len(provider_order)
    /\ provider_order[p] = "yahoo"
    /\ called' = Append(called, "yahoo")
    /\ IF search = "raise" THEN ProviderRaised("Yahoo", cause)
       ELSE IF urls = <<>> THEN ProviderEmpty
       ELSE LET pick == SelectCandidate(urls, nid, used_urls)
            IN  IF dl = "ok"
                THEN ProviderSucceeded("yahoo", pick,
                                       YahooFilenameHint(pick, nid))
                ELSE ProviderRaised("Yahoo", dl)
    /\ ProviderFrame

\* the branch without its test of google_client
GoogleBranchAnyway(provider) == provider = "google"

\* the branch closed once the day's cap is used up
GoogleBranchUnderCap(provider) ==
    /\ provider = "google"
    /\ google_client
    /\ read_quota(quota_file, today).google_used < QuotaCap

\* "elif provider == "google" and google_client is not None"
GoogleBranch(provider) == provider = "google" /\ google_client

\* tools.py 664-688
TryGoogle(search, cause, items, dl) ==
    /\ pc = "providers"
    /\ p <= Len(provider_order)
    /\ GoogleBranch(provider_order[p])
    /\ called' = Append(called, "google")
    /\ IF search = "raise" THEN ProviderRaised("Google", cause)
       ELSE IF items = <<>> THEN ProviderEmpty
       ELSE IF UsableUrls(items) = <<>>
            THEN ProviderRaised("Google", ZeroDivision)
       ELSE LET pick == SelectCandidate(UsableUrls(items), nid, used_urls)
            IN  IF dl = "ok"
                THEN ProviderSucceeded("google", pick,
                                       GoogleFilenameHint(pick, nid))
                ELSE ProviderRaised("Google", dl)
    /\ ProviderFrame

\* no branch of the if/elif chain takes this provider: "google" without a
\* google_client, or a name the batch run does not know
Skipped(provider) ==
    /\ provider \notin {"ddg", "yahoo"}
    /\ ~GoogleBranch(provider)

SkipProvider ==
    /\ pc = "providers"
    /\ p <= Len(provider_order)
    /\ Skipped(provider_order[p])
    /\ pc' = AfterFailure(p).pc
    /\ p' = AfterFailure(p).p
    /\ UNCHANGED <<content, filename_hint, last_error, used_urls,
                   google_used_in_run, called, caught>>
    /\ ProviderFrame

\* what generate_images does: it raises, returns no image, or returns one
GenaiOutcomes == {<<"raise", c>> : c \in Causes} \cup
                 {<<"empty", "">>, <<"image", "">>}

GenaiName(n) ==
    ensure_media_filename_safe(DefaultName(<<"g", "e", "n", "a", "i">>, n))

\* tools.py 583-609: the Gemini branch of a note
Gemini(out, cause) ==
    /\ pc = "gemini"
    /\ pc' = "write"
    /\ IF ~genai_api_key
       THEN /\ last_error' = Some(ErrorText("GenAI",
                       "Missing google_genai_api_key or GEMINI_API_KEY"))
            /\ UNCHANGED <<content, filename_hint>>
       ELSE IF out = "raise"
       THEN /\ last_error' = Some(ErrorText("GenAI", cause))
            /\ UNCHANGED <<content, filename_hint>>
       ELSE IF out = "empty"
       THEN /\ last_error' = Some(ErrorText("GenAI",
                                            "No image returned by Gemini"))
            /\ UNCHANGED <<content, filename_hint>>
       ELSE /\ content' = Some(Bytes("gemini", NoUrl))
            /\ filename_hint' = Some(GenaiName(nid))
            /\ UNCHANGED last_error
    /\ UNCHANGED <<provider_mode, provider_order, google_client, replace,
                   nids, store, media, log, i, nid, note, p, used_urls,
                   google_used_in_run, updated, empty_queries, called,
                   caught, modeVars, quotaVars, cliVars, selVars, otherVars>>

\* the first sentence of a Nadeshiko result: its text and the URLs of its
\* image and audio, each possibly missing
NadeItems ==
    [text : {<<>>, <<"bun">>}, image : {NoUrl, U1}, audio : {NoUrl, U3}]

\* what a Nadeshiko turn can meet: the search raises, finds nothing, or
\* finds a sentence whose downloads return or raise
NadeOutcomes ==
    {<<"raise", c, CHOOSE it \in NadeItems : TRUE, "ok", "ok">> :
        c \in Causes} \cup
    {<<"none", "", CHOOSE it \in NadeItems : TRUE, "ok", "ok">>} \cup
    {<<"found", "", it, d1, d2>> :
        it \in NadeItems, d1 \in Downloads, d2 \in Downloads}

\* tail = url.split("/")[-1].split("?")[0] or f"nade_{nid}.<ext>"
NadeName(url, n, ext) ==
    LET tail == UrlTail(url)
    IN  ensure_media_filename_safe(
            IF tail = <<>>
            THEN <<"n", "a", "d", "e", "_", ToString(n), ".">> \o ext
            ELSE tail)

\* the Nadeshiko branch with the flush moved up: what was set before the
\* audio download raised is stored
NadeshikoFlushingEarly(search, cause, it, dl_img, dl_aud) ==
    /\ pc = "nadeshiko"
    /\ LET sent_ok   == /\ SentenceField \in DOMAIN note
                        /\ (replace \/ note[SentenceField] = <<>>)
           n1        == IF sent_ok
                        THEN [note EXCEPT ![SentenceField] = it.text]
                        ELSE note
           img_url   == Strip(it.image)
           img_try   == img_url # <<>> /\ ImageField \in DOMAIN n1
           img_name  == write_data(NadeName(img_url, nid, <<"j", "p", "g">>),
                                   Bytes("nadeshiko", img_url))
           r_img     == add_image_to_note(n1, ImageField, img_name, replace)
           n2        == IF img_try THEN r_img.note ELSE n1
           media2    == IF img_try THEN media \cup {img_name} ELSE media
           audio_url == Strip(it.audio)
           aud_try   == audio_url # <<>> /\ AudioField \in DOMAIN n2
           aud_name  == write_data(NadeName(audio_url, nid,
                                            <<"m", "p", "3">>),
                                   Bytes("nadeshiko", audio_url))
           r_aud     == add_audio_to_note(n2, AudioField, aud_name, replace)
           n3        == IF aud_try THEN r_aud.note ELSE n2
           media3    == IF aud_try THEN media2 \cup {aud_name} ELSE media2
           note_changed == \/ img_try /\ r_img.changed
                           \/ aud_try /\ r_aud.changed
                           \/ sent_ok
       IN  IF ~nadeshiko_api_key
           THEN /\ pc' = "loop"
                /\ UNCHANGED <<note, media, store, updated, last_error,
                               nade_no_result>>
           ELSE IF search = "raise"
           THEN /\ pc' = "write"
                /\ last_error' = Some(ErrorText("Nadeshiko", cause))
                /\ UNCHANGED <<note, media, store, updated, nade_no_result>>
           ELSE IF search = "none"
           THEN /\ pc' = "loop"
                /\ nade_no_result' = nade_no_result + 1
                /\ UNCHANGED <<note, media, store, updated, last_error>>
           ELSE IF img_try /\ dl_img # "ok"
           THEN /\ pc' = "write"
                /\ note' = n1
                /\ last_error' = Some(ErrorText("Nadeshiko", dl_img))
                /\ UNCHANGED <<media, store, updated, nade_no_result>>
           ELSE IF aud_try /\ dl_aud # "ok"
           THEN /\ pc' = "write"
                /\ note' = n2
                /\ media' = media2
                /\ store' = (nid :> n2) @@ store
                /\ last_error' = Some(ErrorText("Nadeshiko", dl_aud))
                /\ UNCHANGED <<updated, nade_no_result>>
           ELSE /\ pc' = "loop"
                /\ note' = n3
                /\ media' = media3
                /\ store' = (nid :> n3) @@ store
                /\ updated' = IF note_changed THEN updated + 1 ELSE updated
                /\ UNCHANGED <<last_error, nade_no_result>>
    /\ UNCHANGED <<provider_mode, provider_order, google_client, replace,
                   nids, log, i, nid, p, content, filename_hint, used_urls,
                   google_used_in_run, empty_queries, called, caught,
                   keyVars, last_settings, quotaVars, cliVars, selVars,
                   otherVars>>

\* tools.py 537-582: the Nadeshiko branch of a note
Nadeshiko(search, cause, it, dl_img, dl_aud) ==
    /\ pc = "nadeshiko"
    /\ LET sent_ok   == /\ SentenceField \in DOMAIN note
                        /\ (replace \/ note[SentenceField] = <<>>)
           n1        == IF sent_ok
                        THEN [note EXCEPT ![SentenceField] = it.text]
                        ELSE note
           img_url   == Strip(it.image)
           img_try   == img_url # <<>> /\ ImageField \in DOMAIN n1
           img_name  == write_data(NadeName(img_url, nid, <<"j", "p", "g">>),
                                   Bytes("nadeshiko", img_url))
           r_img     == add_image_to_note(n1, ImageField, img_name, replace)
           n2        == IF img_try THEN r_img.note ELSE n1
           media2    == IF img_try THEN media \cup {img_name} ELSE media
           audio_url == Strip(it.audio)
           aud_try   == audio_url # <<>> /\ AudioField \in DOMAIN n2
           aud_name  == write_data(NadeName(audio_url, nid,
                                            <<"m", "p", "3">>),
                                   Bytes("nadeshiko", audio_url))
           r_aud     == add_audio_to_note(n2, AudioField, aud_name, replace)
           n3        == IF aud_try THEN r_aud.note ELSE n2
           media3    == IF aud_try THEN media2 \cup {aud_name} ELSE media2
           note_changed == \/ img_try /\ r_img.changed
                           \/ aud_try /\ r_aud.changed
                           \/ sent_ok
       IN  IF ~nadeshiko_api_key
           THEN /\ pc' = "loop"
                /\ UNCHANGED <<note, media, store, updated, last_error,
                               nade_no_result>>
           ELSE IF search = "raise"
           THEN /\ pc' = "write"
                /\ last_error' = Some(ErrorText("Nadeshiko", cause))
                /\ UNCHANGED <<note, media, store, updated, nade_no_result>>
           ELSE IF search = "none"
           THEN /\ pc' = "loop"
                /\ nade_no_result' = nade_no_result + 1
                /\ UNCHANGED <<note, media, store, updated, last_error>>
           ELSE IF img_try /\ dl_img # "ok"
           THEN /\ pc' = "write"
                /\ note' = n1
                /\ last_error' = Some(ErrorText("Nadeshiko", dl_img))
                /\ UNCHANGED <<media, store, updated, nade_no_result>>
           ELSE IF aud_try /\ dl_aud # "ok"
           THEN /\ pc' = "write"
                /\ note' = n2
                /\ media' = media2
                /\ last_error' = Some(ErrorText("Nadeshiko", dl_aud))
                /\ UNCHANGED <<store, updated, nade_no_result>>
           ELSE /\ pc' = "loop"
                /\ note' = n3
                /\ media' = media3
                /\ store' = (nid :> n3) @@ store
                /\ updated' = IF note_changed THEN updated + 1 ELSE updated
                /\ UNCHANGED <<last_error, nade_no_result>>
    /\ UNCHANGED <<provider_mode, provider_order, google_client, replace,
                   nids, log, i, nid, p, content, filename_hint, used_urls,
                   google_used_in_run, empty_queries, called, caught,
                   keyVars, last_settings, quotaVars, cliVars, selVars,
                   otherVars>>

\* the flag of the dialog in every mode
ReplaceAsGiven == replace

\* replace_eff (tools.py 697)
ReplaceEff == IF provider_mode = "google" THEN replace ELSE TRUE

\* logger.error(f"All providers failed for '{q}': {last_error}")
ErrorLine(q, err) == <<"All providers failed for", q, err>>

\* the log with a line for every note without a payload
FailureLogAlways(lines, q, err) ==
    Append(lines, ErrorLine(q, IF err # None THEN err[1]
                               ELSE "no provider available"))

\* tools.py 691-692: the log after a note without a payload
FailureLog(lines, q, err) ==
    IF err # None THEN Append(lines, ErrorLine(q, err[1])) ELSE lines

\* tools.py 690-700
FinishKey ==
    /\ pc = "write"
    /\ pc' = "loop"
    /\ IF content = None \/ filename_hint = None
       THEN /\ log' = FailureLog(log, note[QueryField], last_error)
            /\ UNCHANGED <<media, note, store, updated>>
       ELSE LET media_name == write_data(filename_hint[1], content[1])
                res == add_image_to_note(note, TargetField, media_name,
                                         ReplaceEff)
            IN  /\ media' = media \cup {media_name}
                /\ note' = res.note
                /\ IF res.changed
                   THEN /\ store' = (nid :> res.note) @@ store
                        /\ updated' = updated + 1
                   ELSE UNCHANGED <<store, updated>>
                /\ UNCHANGED log
    /\ UNCHANGED <<provider_mode, provider_order, google_client, replace,
                   nids, i, nid, p, content, filename_hint, last_error,
                   used_urls, google_used_in_run, empty_queries, called,
                   caught, modeVars, quotaVars, cliVars, selVars, otherVars>>

\* tools.py 702-735: the settings of the mode are stored; a failed write is
\* passed over
write_last_settings(last, mode, ok) ==
    IF ok THEN last \cup {mode} ELSE last

\* the end of a run that hands the number of notes updated to the increment
EndRunByUpdated(w1, w2, w3) ==
    /\ pc = "loop"
    /\ i = Len(nids)
    /\ pc' = "done"
    /\ last_settings' = write_last_settings(last_settings, provider_mode, w3)
    /\ IF updated # 0
       THEN LET f == increment_google_quota(quota_file, today,
                                            updated, w1)
                d == get_quota_display(f, today, w2)
            IN  /\ quota_file' = d.file
                /\ quota_label' = Some(d.used)
                /\ quota_op' = [op |-> "run", inc |-> updated,
                                ok |-> w1]
       ELSE UNCHANGED <<quota_file, quota_label, quota_op>>
    /\ UNCHANGED <<provider_mode, provider_order, google_client, replace,
                   nids, store, media, log, i, nid, note, p, content,
                   filename_hint, last_error, used_urls, google_used_in_run,
                   updated, empty_queries, called, caught, keyVars,
                   nade_no_result, today, cliVars, selVars, otherVars>>

\* tools.py 702-754: after the loop the settings are saved and the quota
\* file is brought up to date
EndRun(w1, w2, w3) ==
    /\ pc = "loop"
    /\ i = Len(nids)
    /\ pc' = "done"
    /\ last_settings' = write_last_settings(last_settings, provider_mode, w3)
    /\ IF google_used_in_run # 0
       THEN LET f == increment_google_quota(quota_file, today,
                                            google_used_in_run, w1)
                d == get_quota_display(f, today, w2)
            IN  /\ quota_file' = d.file
                /\ quota_label' = Some(d.used)
                /\ quota_op' = [op |-> "run", inc |-> google_used_in_run,
                                ok |-> w1]
       ELSE UNCHANGED <<quota_file, quota_label, quota_op>>
    /\ UNCHANGED <<provider_mode, provider_order, google_client, replace,
                   nids, store, media, log, i, nid, note, p, content,
                   filename_hint, last_error, used_urls, google_used_in_run,
                   updated, empty_queries, called, caught, keyVars,
                   nade_no_result, today, cliVars, selVars, otherVars>>

SearchResults == SeqsOf(Urls \cup {NoUrl}, 0, MaxItems)
UrlLists == SeqsOf(Urls, 0, MaxItems)

\* what a provider's turn can meet: the search raises, or it returns
\* results and the download of the pick returns or raises
SearchOutcomes(results) ==
    {<<"raise", c, <<>>, "ok">> : c \in Causes} \cup
    {<<"return", "", r, d>> : r \in results, d \in Downloads}

BatchNext ==
    \/ RunStart
    \/ AbortRun
    \/ \E n \in NotesOf(provider_mode) : NextKey(n)
    \/ \E o \in GenaiOutcomes : Gemini(o[1], o[2])
    \/ \E o \in NadeOutcomes : Nadeshiko(o[1], o[2], o[3], o[4], o[5])
    \/ \E o \in SearchOutcomes(SearchResults) : TryDdg(o[1], o[2], o[3], o[4])
    \/ \E o \in SearchOutcomes(UrlLists) : TryYahoo(o[1], o[2], o[3], o[4])
    \/ \E o \in SearchOutcomes(SearchResults) :
          TryGoogle(o[1], o[2], o[3], o[4])
    \/ SkipProvider
    \/ FinishKey
    \/ \E w1, w2, w3 \in BOOLEAN : EndRun(w1, w2, w3)

---------------------------------------------------------------------------
(* The command-line fetcher: test_fetch_images.py.                         *)

CliOff ==
    /\ cli_pc = "off"
    /\ count = 0
    /\ pexels_api_key = FALSE
    /\ cli_pos = 0
    /\ saved = 0
    /\ cli_called = <<>>

\* main() up to its provider loop (test_fetch_images.py 134-161)
CliInit ==
    /\ Config
    /\ cli_pc = "main"
    /\ count \in 0..MaxCount
    /\ pexels_api_key \in BOOLEAN
    /\ cli_pos = 1
    /\ saved = 0
    /\ cli_called = <<>>

\* The loop over the results that fetch_with_ddg, fetch_with_yahoo,
\* fetch_with_pexels and the google branch of main() share: a result without
\* a URL (or, with seen tracking, with a URL already saved) is passed over,
\* a failed download is printed and passed over, a saved file counts, and
\* the loop ends when n has reached limit. Each result is [url, ok].
RECURSIVE SaveLoop(_, _, _, _, _)
SaveLoop(results, limit, n, seen, track) ==
    IF results = <<>> THEN n
    ELSE LET r == Head(results)
         IN  IF r.url = <<>> \/ (track /\ r.url \in seen)
             THEN SaveLoop(Tail(results), limit, n, seen, track)
             ELSE IF ~r.ok
             THEN SaveLoop(Tail(results), limit, n, seen, track)
             ELSE IF n + 1 >= limit THEN n + 1
             ELSE SaveLoop(Tail(results), limit, n + 1,
                           seen \cup {r.url}, track)

\* fetch_with_ddg (test_fetch_images.py 42-66)
fetch_with_ddg(results, limit) ==
    SaveLoop([j \in 1..Len(results) |->
                 [url |-> Strip(results[j].url), ok |-> results[j].ok]],
             limit, 0, {}, TRUE)

\* fetch_with_yahoo (test_fetch_images.py 69-97)
fetch_with_yahoo(results, limit) == SaveLoop(results, limit, 0, {}, TRUE)

\* fetch_with_pexels with an api key (test_fetch_images.py 104-131)
fetch_with_pexels(results, limit) == SaveLoop(results, limit, 0, {}, FALSE)

\* "if not api_key: ... return 0" (test_fetch_images.py 101-103)
PexelsSkipped == ~pexels_api_key

\* "if not key or not cx" (test_fetch_images.py 175)
CliGoogleSkipped == ~google_client

CliFrame ==
    UNCHANGED <<count, pexels_api_key, batchVars, quotaVars, selVars,
                otherVars>>

\* the provider's turn is over: on to the next one
CliAdvance(n, provider, wasCalled) ==
    /\ saved' = n
    /\ cli_pos' = cli_pos + 1
    /\ cli_called' = IF wasCalled THEN Append(cli_called, provider)
                     ELSE cli_called
    /\ UNCHANGED cli_pc

\* an exception raised by a search is caught nowhere: the program ends
CliCrash(provider) ==
    /\ cli_pc' = "crashed"
    /\ cli_called' = Append(cli_called, provider)
    /\ UNCHANGED <<saved, cli_pos>>

\* the loop without "if saved >= args.count: break"
CliTurnAnyway(provider) ==
    /\ cli_pc = "main"
    /\ cli_pos <= Len(provider_order)
    /\ provider_order[cli_pos] = provider

\* test_fetch_images.py 162-165: the loop of main() has come to this provider
CliTurn(provider) ==
    /\ cli_pc = "main"
    /\ cli_pos <= Len(provider_order)
    /\ saved < count
    /\ provider_order[cli_pos] = provider

\* test_fetch_images.py 166-167
CliDdg(search, results) ==
    /\ CliTurn("ddg")
    /\ IF search = "raise" THEN CliCrash("ddg")
       ELSE CliAdvance(saved + fetch_with_ddg(results, count - saved),
                       "ddg", TRUE)
    /\ CliFrame

\* test_fetch_images.py 168-169
CliPexels(search, results) ==
    /\ CliTurn("pexels")
    /\ IF PexelsSkipped THEN CliAdvance(saved + 0, "pexels", FALSE)
       ELSE IF search = "raise" THEN CliCrash("pexels")
       ELSE CliAdvance(saved + fetch_with_pexels(results, count - saved),
                       "pexels", TRUE)
    /\ CliFrame

\* test_fetch_images.py 170-171
CliYahoo(search, results) ==
    /\ CliTurn("yahoo")
    /\ IF search = "raise" THEN CliCrash("yahoo")
       ELSE CliAdvance(saved + fetch_with_yahoo(results, count - saved),
                       "yahoo", TRUE)
    /\ CliFrame

\* test_fetch_images.py 172-196: the loop runs on main's own saved
CliGoogle(search, results) ==
    /\ CliTurn("google")
    /\ IF CliGoogleSkipped THEN CliAdvance(saved, "google", FALSE)
       ELSE IF search = "raise" THEN CliCrash("google")
       ELSE CliAdvance(SaveLoop(results, count, saved, {}, FALSE),
                       "google", TRUE)
    /\ CliFrame

\* "if saved >= args.count: break", or the order is used up
\* (test_fetch_images.py 162-164, 198)
CliDone ==
    /\ cli_pc = "main"
    /\ cli_pos > Len(provider_order) \/ saved >= count
    /\ cli_pc' = "done"
    /\ UNCHANGED <<saved, cli_pos, cli_called>>
    /\ CliFrame

\* the results of a search with the outcome of each download
CliResults == SeqsOf([url : Urls \cup {NoUrl}, ok : BOOLEAN], 0, MaxItems)

CliOutcomes ==
    {<<"raise", <<>>>>} \cup {<<"return", r>> : r \in CliResults}

CliNext ==
    \/ \E o \in CliOutcomes : CliDdg(o[1], o[2])
    \/ \E o \in CliOutcomes : CliPexels(o[1], o[2])
    \/ \E o \in CliOutcomes : CliYahoo(o[1], o[2])
    \/ \E o \in CliOutcomes : CliGoogle(o[1], o[2])
    \/ CliDone

---------------------------------------------------------------------------
(* The selector run repeatedly over one candidate list with an             *)
(* accumulating used_urls, as by successive notes whose query returns the  *)
(* same results.                                                           *)

NoMemo == [key |-> 0, used |-> {}, pick |-> None, run |-> 0]

SelInit ==
    /\ sel_cands \in SeqsOf(Urls, 1, MaxCands)
    /\ sel_used = {}
    /\ sel_key = 0
    /\ sel_before = {}
    /\ sel_pick = None
    /\ sel_picks = <<>>
    /\ sel_runs = 0
    /\ sel_memo = NoMemo

\* the selector's variables while another part of the program runs
SelIdle ==
    /\ sel_cands = <<>>
    /\ sel_used = {}
    /\ sel_key = 0
    /\ sel_before = {}
    /\ sel_pick = None
    /\ sel_picks = <<>>
    /\ sel_runs = 0
    /\ sel_memo = NoMemo

\* One note's selection and download: used_urls.add(pick) is reached only
\* when download_image returned (tools.py 629-635).
SelectorRun(k, ok, remember) ==
    /\ sel_runs < MaxRuns
    /\ LET pick == SelectCandidate(sel_cands, k, sel_used)
       IN  /\ sel_key' = k
           /\ sel_before' = sel_used
           /\ sel_pick' = Some(pick)
           /\ sel_runs' = sel_runs + 1
           /\ sel_used' = IF ok THEN sel_used \cup {pick} ELSE sel_used
           /\ sel_picks' = IF ok THEN Append(sel_picks, pick) ELSE sel_picks
           /\ sel_memo' = IF remember
                          THEN [key |-> k, used |-> sel_used,
                                pick |-> Some(pick),
                                run |-> sel_runs + 1]
                          ELSE sel_memo
    /\ UNCHANGED <<sel_cands, batchVars, cliVars, quotaVars, otherVars>>

SelNext ==
    \E k \in Nids, ok \in BOOLEAN, remember \in BOOLEAN :
        SelectorRun(k, ok, remember)

NoOp == [op |-> "none", inc |-> 0, ok |-> TRUE]

QuotaIdle ==
    /\ quota_file = NoFile
    /\ today = 1
    /\ quota_label = None
    /\ quota_op = NoOp

InitSel ==
    /\ SelInit /\ SelConfig /\ BatchOff /\ CliOff /\ QuotaIdle
    /\ FieldIdle /\ QuickOff /\ RestIdle

SpecSel == InitSel /\ [][SelNext]_vars

---------------------------------------------------------------------------
(* The quota file over several days: the dialog shows it, runs and         *)
(* quick-adds raise it, the Pacific day changes.                           *)

QuotaFrame == UNCHANGED <<batchVars, cliVars, selVars, otherVars>>

\* midnight in America/Los_Angeles (tools.py 85-91)
Tick ==
    /\ today < MaxDay
    /\ today' = today + 1
    /\ quota_op' = [op |-> "tick", inc |-> 0, ok |-> TRUE]
    /\ UNCHANGED <<quota_file, quota_label>>
    /\ QuotaFrame

\* google_used the operation would leave when its write goes through
UsedAfter(inc) ==
    ResetIfNewDay(read_quota(quota_file, today), today).google_used + inc

\* the dialog is built or refreshed (tools.py 233, 742)
GetQuotaDisplay(ok) ==
    /\ LET d == get_quota_display(quota_file, today, ok)
       IN  /\ quota_file' = d.file
           /\ quota_label' = Some(d.used)
    /\ quota_op' = [op |-> "display", inc |-> 0, ok |-> ok]
    /\ UNCHANGED today
    /\ QuotaFrame

\* the end of a run that used Google inc times (tools.py 740-741)
IncrementGoogleQuota(inc, ok) ==
    /\ UsedAfter(inc) <= MaxUsed
    /\ quota_file' = increment_google_quota(quota_file, today, inc, ok)
    /\ quota_op' = [op |-> "increment", inc |-> inc, ok |-> ok]
    /\ UNCHANGED <<today, quota_label>>
    /\ QuotaFrame

\* a quick-add that used Google (tools.py 846)
IncrementGoogleQuotaGlobal(inc, ok) ==
    /\ UsedAfter(inc) <= MaxUsed
    /\ quota_file' = increment_google_quota_global(quota_file, today, inc, ok)
    /\ quota_op' = [op |-> "global", inc |-> inc, ok |-> ok]
    /\ UNCHANGED <<today, quota_label>>
    /\ QuotaFrame

\* the values inc is called with: below 0, 0, and above
Incs == (0 - 1)..MaxUsed

QuotaNext ==
    \/ Tick
    \/ \E ok \in BOOLEAN : GetQuotaDisplay(ok)
    \/ \E inc \in Incs, ok \in BOOLEAN : IncrementGoogleQuota(inc, ok)
    \/ \E inc \in Incs, ok \in BOOLEAN : IncrementGoogleQuotaGlobal(inc, ok)

InitQuota ==
    /\ QuotaIdle /\ SelIdle /\ SelConfig /\ BatchOff /\ CliOff
    /\ FieldIdle /\ QuickOff /\ RestIdle

SpecQuota == InitQuota /\ [][QuotaNext]_vars

---------------------------------------------------------------------------
(* Field writes applied one after another to one note.                     *)

MediaNames == {<<"a">>, <<"b">>}

FieldNames == {ImageField, AudioField}

\* the notes the writes start from: each field absent, empty, holding other
\* text, or holding the tag of a media file
FieldNotes ==
    UNION {[d -> {<<>>, OldText, ImgTag(<<"a">>), AudioTag(<<"a">>)}] :
              d \in SUBSET FieldNames}

FieldInit ==
    /\ fw_note \in FieldNotes
    /\ fw_before = fw_note
    /\ fw_call = NoCall
    /\ fw_ret = FALSE

FieldFrame ==
    UNCHANGED <<batchVars, cliVars, selVars, quotaVars, quickVars, hostVars,
                raceVars, clientVars>>

\* add_image_to_note(note, field, name, replace=rep)
WriteImage(field, name, rep) ==
    /\ LET r == add_image_to_note(fw_note, field, name, rep)
       IN  /\ fw_note' = r.note
           /\ fw_ret' = r.changed
    /\ fw_before' = fw_note
    /\ fw_call' = [kind |-> "image", field |-> field, name |-> name,
                   rep |-> rep]
    /\ FieldFrame

\* add_audio_to_note(note, field, name, replace=rep)
WriteAudio(field, name, rep) ==
    /\ LET r == add_audio_to_note(fw_note, field, name, rep)
       IN  /\ fw_note' = r.note
           /\ fw_ret' = r.changed
    /\ fw_before' = fw_note
    /\ fw_call' = [kind |-> "audio", field |-> field, name |-> name,
                   rep |-> rep]
    /\ FieldFrame

FieldNext ==
    \/ \E f \in FieldNames, m \in MediaNames, r \in BOOLEAN :
          WriteImage(f, m, r)
    \/ \E f \in FieldNames, m \in MediaNames, r \in BOOLEAN :
          WriteAudio(f, m, r)

InitField ==
    /\ FieldInit /\ QuickOff /\ RestIdle
    /\ SelIdle /\ SelConfig /\ BatchOff /\ CliOff /\ QuotaIdle

SpecField == InitField /\ [][FieldNext]_vars

---------------------------------------------------------------------------
(* The reviewer's quick-add: quick_add_image_for_current_card              *)
(* (tools.py 780-846).                                                     *)

\* the reviewer shows a card; config.json may hold the google keys, the
\* Nadeshiko key, the GenAI key and default_replace (which the dialog
\* reads, tools.py 186)
QuickInit ==
    /\ card \in Notes \cup NadeNotes
    /\ qa_msg = ""
    /\ qa_calls = 0
    /\ qa_runs = 0
    /\ qa_last = NoQuick
    /\ provider_order = <<"ddg">>
    /\ google_client \in BOOLEAN
    /\ nadeshiko_api_key \in BOOLEAN
    /\ genai_api_key \in BOOLEAN
    /\ replace \in BOOLEAN

\* tail = link.split("/")[-1].split("?")[0] or <fallback>
QuickTail(link, fallback) ==
    LET tail == UrlTail(link)
    IN  ensure_media_filename_safe(IF tail = <<>> THEN fallback ELSE tail)

\* tail = link.split("/")[-1].split("?")[0] or "google.jpg"
QuickName(link) ==
    QuickTail(link, <<"g", "o", "o", "g", "l", "e", ".", "j", "p", "g">>)

\* the flag of the dialog handed on to the field writes
QuickReplaceDefault == replace

\* replace=True: the flag each quick-add hands to add_image_to_note and
\* add_audio_to_note
QuickReplace == TRUE

\* the locals of a quick-add that stored no media
QuickNothing(kind, raised) ==
    [kind |-> kind, before |-> card, note |-> card, image |-> None,
     audio |-> None, raised |-> raised]

\* the quick-add ends with a message and nothing else
QuickEnds(msg, searched) ==
    /\ qa_msg' = msg
    /\ qa_calls' = IF searched THEN qa_calls + 1 ELSE qa_calls
    /\ UNCHANGED <<card, media, quota_file, quota_op>>

\* what a quick-add leaves alone: the dialog, the fetcher, the selector
QuickFrame ==
    UNCHANGED <<provider_mode, provider_order, google_client, replace,
                nids, store, log, pc, i, nid, note, p, content,
                filename_hint, last_error, used_urls, google_used_in_run,
                updated, empty_queries, called, caught, modeVars,
                today, quota_label, cliVars, selVars, fieldVars, hostVars,
                raceVars, clientVars>>

\* quick_add_image_for_current_card. search: "raise" or the items returned;
\* dl: "ok" or the cause download_image raised; w: the quota write went
\* through
QuickAddImage(search, cause, items, dl, w) ==
    /\ card # NoNote
    /\ qa_runs < MaxQuick
    /\ qa_runs' = qa_runs + 1
    /\ LET q_text == Strip(get_field_value(card, QueryField))
           link   == Strip(items[1])
           name   == write_data(QuickName(link), Bytes("google", link))
           res    == add_image_to_note(card, TargetField, name, QuickReplace)
       IN  IF q_text = <<>>
           THEN /\ QuickEnds("Query field is empty", FALSE)
                /\ qa_last' = QuickNothing("google", FALSE)
           ELSE IF ~google_client
           THEN /\ QuickEnds("Google API key or CX missing", FALSE)
                /\ qa_last' = QuickNothing("google", FALSE)
           ELSE IF search = "raise"
           THEN /\ QuickEnds("Failed to add image: " \o cause, TRUE)
                /\ qa_last' = QuickNothing("google", TRUE)
           ELSE IF items = <<>>
           THEN /\ QuickEnds("No images found.", TRUE)
                /\ qa_last' = QuickNothing("google", FALSE)
           ELSE IF link = <<>>
           THEN /\ QuickEnds("No usable image link found.", TRUE)
                /\ qa_last' = QuickNothing("google", FALSE)
           ELSE IF dl # "ok"
           THEN /\ QuickEnds("Failed to add image: " \o dl, TRUE)
                /\ qa_last' = QuickNothing("google", TRUE)
           ELSE /\ qa_calls' = qa_calls + 1
                /\ media' = media \cup {name}
                /\ card' = res.note
                /\ qa_last' = [kind |-> "google", before |-> card,
                               note |-> res.note, image |-> Some(name),
                               audio |-> None, raised |-> FALSE]
                /\ IF res.changed
                   THEN /\ quota_file' =
                               increment_google_quota_global(quota_file,
                                                             today, 1, w)
                        /\ quota_op' = [op |-> "global", inc |-> 1,
                                        ok |-> w]
                        /\ qa_msg' = "Image added to current card."
                   ELSE UNCHANGED <<quota_file, quota_op, qa_msg>>
    /\ QuickFrame

\* quick_add_nadeshiko_for_current_card (tools.py 854-967), with the fields
\* the last Nadeshiko run saved. search: "raise", "none" or "found"; it: the
\* first sentence; dl_img, dl_aud: "ok" or the cause client.download raised
QuickAddNadeshiko(search, cause, it, dl_img, dl_aud) ==
    /\ card # NoNote
    /\ qa_runs < MaxQuick
    /\ qa_runs' = qa_runs + 1
    /\ LET q_text    == Strip(get_field_value(card, QueryField))
           sent_ok   == SentenceField \in DOMAIN card
           n1        == IF sent_ok
                        THEN [card EXCEPT ![SentenceField] = Strip(it.text)]
                        ELSE card
           img_url   == Strip(it.image)
           img_name  == write_data(
                            QuickTail(img_url, <<"n", "a", "d", "e", "s",
                                "h", "i", "k", "o", ".", "j", "p", "g">>),
                            Bytes("nadeshiko", img_url))
           r_img     == add_image_to_note(n1, ImageField, img_name,
                                          QuickReplace)
           n2        == IF img_url # <<>> THEN r_img.note ELSE n1
           got_img   == IF img_url # <<>> THEN Some(img_name) ELSE None
           media2    == IF img_url # <<>> THEN media \cup {img_name}
                        ELSE media
           audio_url == Strip(it.audio)
           aud_name  == write_data(
                            QuickTail(audio_url, <<"n", "a", "d", "e", "s",
                                "h", "i", "k", "o", ".", "m", "p", "3">>),
                            Bytes("nadeshiko", audio_url))
           r_aud     == add_audio_to_note(n2, AudioField, aud_name,
                                          QuickReplace)
           n3        == IF audio_url # <<>> THEN r_aud.note ELSE n2
           got_aud   == IF audio_url # <<>> THEN Some(aud_name) ELSE None
           media3    == IF audio_url # <<>> THEN media2 \cup {aud_name}
                        ELSE media2
           upd       == \/ sent_ok
                        \/ img_url # <<>> /\ r_img.changed
                        \/ audio_url # <<>> /\ r_aud.changed
           failed(c) == /\ qa_msg' = "Failed to add Nadeshiko media: " \o c
                        /\ UNCHANGED card
       IN  IF q_text = <<>>
           THEN /\ qa_msg' = "Query field is empty"
                /\ qa_last' = QuickNothing("nadeshiko", FALSE)
                /\ UNCHANGED <<card, media>>
           ELSE IF ~nadeshiko_api_key
           THEN /\ qa_msg' = "Missing nadeshiko_api_key in config.json"
                /\ qa_last' = QuickNothing("nadeshiko", FALSE)
                /\ UNCHANGED <<card, media>>
           ELSE IF search = "raise"
           THEN /\ failed(cause)
                /\ qa_last' = QuickNothing("nadeshiko", TRUE)
                /\ UNCHANGED media
           ELSE IF search = "none"
           THEN /\ qa_msg' = "No Nadeshiko results found."
                /\ qa_last' = QuickNothing("nadeshiko", FALSE)
                /\ UNCHANGED <<card, media>>
           ELSE IF img_url # <<>> /\ dl_img # "ok"
           THEN /\ failed(dl_img)
                /\ qa_last' = [kind |-> "nadeshiko", before |-> card,
                               note |-> n1, image |-> None, audio |-> None,
                               raised |-> TRUE]
                /\ UNCHANGED media
           ELSE IF audio_url # <<>> /\ dl_aud # "ok"
           THEN /\ failed(dl_aud)
                /\ qa_last' = [kind |-> "nadeshiko", before |-> card,
                               note |-> n2, image |-> got_img,
                               audio |-> None, raised |-> TRUE]
                /\ media' = media2
           ELSE /\ media' = media3
                /\ qa_last' = [kind |-> "nadeshiko", before |-> card,
                               note |-> n3, image |-> got_img,
                               audio |-> got_aud, raised |-> FALSE]
                /\ IF upd
                   THEN /\ card' = n3
                        /\ qa_msg' = "Nadeshiko media (and sentence) added to current card."
                   ELSE /\ qa_msg' = "Nothing was updated."
                        /\ UNCHANGED card
    /\ UNCHANGED <<qa_calls, quota_file, quota_op>>
    /\ QuickFrame

\* quick_add_google_genai_image_for_current_card (tools.py 970-1043), with
\* the fields the last GenAI run saved. out: generate_images raises, returns
\* no image or returns one
QuickAddGenai(out, cause) ==
    /\ card # NoNote
    /\ qa_runs < MaxQuick
    /\ qa_runs' = qa_runs + 1
    /\ LET q_text == Strip(get_field_value(card, QueryField))
           name   == write_data(
                         ensure_media_filename_safe(
                             <<"g", "e", "n", "a", "i", ".", "j", "p", "g">>),
                         Bytes("gemini", NoUrl))
           res    == add_image_to_note(card, TargetField, name, QuickReplace)
       IN  IF q_text = <<>>
           THEN /\ qa_msg' = "Query field is empty"
                /\ qa_last' = QuickNothing("genai", FALSE)
                /\ UNCHANGED <<card, media>>
           ELSE IF ~genai_api_key
           THEN /\ qa_msg' = "Missing google_genai_api_key in config.json"
                /\ qa_last' = QuickNothing("genai", FALSE)
                /\ UNCHANGED <<card, media>>
           ELSE IF out = "raise"
           THEN /\ qa_msg' = "Failed to add GenAI image: " \o cause
                /\ qa_last' = QuickNothing("genai", TRUE)
                /\ UNCHANGED <<card, media>>
           ELSE IF out = "empty"
           THEN /\ qa_msg' = "No image generated."
                /\ qa_last' = QuickNothing("genai", FALSE)
                /\ UNCHANGED <<card, media>>
           ELSE /\ media' = media \cup {name}
                /\ card' = res.note
                /\ qa_last' = [kind |-> "genai", before |-> card,
                               note |-> res.note, image |-> Some(name),
                               audio |-> None, raised |-> FALSE]
                /\ qa_msg' = IF res.changed
                             THEN "Generated image added to current card."
                             ELSE "Nothing was updated."
    /\ UNCHANGED <<qa_calls, quota_file, quota_op>>
    /\ QuickFrame

QuickNext ==
    \/ \E o \in SearchOutcomes(SearchResults), w \in BOOLEAN :
          QuickAddImage(o[1], o[2], o[3], o[4], w)
    \/ \E o \in NadeOutcomes :
          QuickAddNadeshiko(o[1], o[2], o[3], o[4], o[5])
    \/ \E o \in GenaiOutcomes : QuickAddGenai(o[1], o[2])

---------------------------------------------------------------------------
(* The programs: the add-on's dialog, the command-line fetcher and the     *)
(* reviewer's quick-add.                                                   *)

\* the quota file holds today's record with u uses; shown is what the
\* dialog's label shows (tools.py 232-233), None without a dialog
QuotaAt(u, shown) ==
    /\ today = 1
    /\ quota_file = <<[date |-> today, google_used |-> u]>>
    /\ quota_label = shown
    /\ quota_op = NoOp

\* after the dialog is built its quota label has been filled in
\* (tools.py 232-233); the file holds today's record
QuotaFresh == QuotaAt(0, Some(0))

\* one of the programs is started, with u uses of today in the quota file
Programs(u) ==
    /\ \/ BatchInit /\ CliOff /\ QuickOff /\ QuotaAt(u, Some(u))
       \/ BatchOff /\ CliInit /\ QuickOff /\ QuotaIdle
       \/ BatchStopped /\ CliOff /\ QuickInit /\ QuotaAt(u, None)
    /\ SelIdle
    /\ FieldIdle
    /\ RestIdle

Init == Programs(0)

Next == BatchNext \/ CliNext \/ QuickNext

Spec == Init /\ [][Next]_vars

\* the same programs started with the day's cap already used up
InitCap == Programs(QuotaCap)

SpecCap == InitCap /\ [][Next]_vars

---------------------------------------------------------------------------
(* The batch run with a host that clicks Cancel between two notes.         *)

\* the Cancel button is clicked (tools.py 226, 236: its click is bound to
\* the dialog's reject) while the loop of _on_run stands between two notes;
\* _on_run reads nothing the click sets
RequestAbort ==
    /\ pc = "loop"
    /\ ~abort_requested
    /\ abort_requested' = TRUE
    /\ UNCHANGED <<batchVars, cliVars, selVars, quotaVars, fieldVars,
                   quickVars, raceVars, clientVars>>

AbortNext == BatchNext \/ RequestAbort

InitAbort ==
    /\ BatchInit /\ CliOff /\ QuickOff /\ QuotaFresh
    /\ SelIdle /\ FieldIdle /\ HostIdle /\ RaceIdle /\ ClientsIdle

SpecAbort == InitAbort /\ [][AbortNext]_vars

---------------------------------------------------------------------------
(* Two processes, a dialog's batch run and a reviewer's quick-add, each    *)
(* making one increment of the same quota file (tools.py 123-131,          *)
(* 762-779). Neither takes a lock.                                         *)

RaceProcs == {1, 2}

\* q["google_used"] = int(q.get("google_used", 0)) with inc written over it
IncrementedTo(q, inc) == [q EXCEPT !.google_used = inc]

\* q["google_used"] = int(q.get("google_used", 0)) + inc
Incremented(q, inc) == [q EXCEPT !.google_used = @ + inc]

\* the files the two processes can find: none, today's record, yesterday's
RaceFiles ==
    {NoFile} \cup {<<[date |-> d, google_used |-> u]>> : d \in 0..1,
                                                          u \in 0..1}

RaceInit ==
    /\ today = 1
    /\ quota_file \in RaceFiles
    /\ quota_label = None
    /\ quota_op = NoOp
    /\ procs \in [RaceProcs -> {[pc |-> "start", inc |-> n, q |-> None]
                                  : n \in 1..MaxInc}]
    /\ race_start = IF quota_file # NoFile /\ quota_file[1].date = today
                    THEN quota_file[1].google_used ELSE 0
    /\ race_overlap = FALSE

RaceFrame ==
    UNCHANGED <<batchVars, cliVars, selVars, fieldVars, quickVars, hostVars,
                clientVars, today, quota_label, quota_op, race_start>>

\* the process is between its read and the end of its write
Within(pr) == procs[pr].pc \in {"read", "truncated"}

\* "q = self._read_quota()" and the reset of another day's record
\* (tools.py 126-129, 766-773), the record with inc added held in q
RaceRead(pr) ==
    /\ procs[pr].pc = "start"
    /\ procs' = [procs EXCEPT
                    ![pr].pc = "read",
                    ![pr].q = Some(Incremented(
                                  ResetIfNewDay(read_quota(quota_file, today),
                                                today),
                                  procs[pr].inc))]
    /\ race_overlap' = (race_overlap \/ \E o \in RaceProcs \ {pr} : Within(o))
    /\ UNCHANGED quota_file
    /\ RaceFrame

\* open(path, "w"): the file is emptied, or cannot be opened and the
\* increment is given up (tools.py 102, 104-105, 776, 778-779)
RaceOpen(pr, ok) ==
    /\ procs[pr].pc = "read"
    /\ procs' = [procs EXCEPT ![pr].pc = IF ok THEN "truncated" ELSE "failed"]
    /\ quota_file' = IF ok THEN NoFile ELSE quota_file
    /\ UNCHANGED race_overlap
    /\ RaceFrame

\* json.dump(q, f) (tools.py 103, 777)
RaceDump(pr) ==
    /\ procs[pr].pc = "truncated"
    /\ procs' = [procs EXCEPT ![pr].pc = "done"]
    /\ quota_file' = <<procs[pr].q[1]>>
    /\ UNCHANGED race_overlap
    /\ RaceFrame

RaceNext ==
    \E pr \in RaceProcs :
        \/ RaceRead(pr)
        \/ \E ok \in BOOLEAN : RaceOpen(pr, ok)
        \/ RaceDump(pr)

InitRace ==
    /\ RaceInit /\ HostIdle /\ ClientsIdle
    /\ SelIdle /\ SelConfig /\ BatchOff /\ CliOff /\ FieldIdle /\ QuickOff

SpecRace == InitRace /\ [][RaceNext]_vars

---------------------------------------------------------------------------
(* The provider clients called on their own: the searches of               *)
(* YahooImagesClient (yahoo_api.py 31-50) and DuckDuckGoClient             *)
(* (ddg_api.py 71-137) against a server that answers as it likes.          *)

\* a result that is not an http URL
NotHttp == <<"f", "/", "c">>

\* what a page of results can list
PageUrls == {U1, U2, NotHttp}

\* u.startswith("http"); the URLs here spell the scheme "h"
StartsWithHttp(u) == Len(u) >= 1 /\ u[1] = "h"

\* the answers to one request: the status, the results on the page, and
\* whether the page points to a next one ("Next" in the text, data["next"])
Pages ==
    [status : {200, 503}, found : SeqsOf(PageUrls, 0, MaxPageItems),
     more : BOOLEAN]

\* s[:n]
Prefix(s, n) == SubSeq(s, 1, IF Len(s) < n THEN Len(s) ELSE n)

\* yahoo_api.py 41-46: the page's http URLs not yet listed are appended,
\* up to max_results
RECURSIVE YahooCollect(_, _, _)
YahooCollect(urls, found, max) ==
    IF found = <<>> THEN urls
    ELSE IF StartsWithHttp(Head(found)) /\ Head(found) \notin Range(urls)
    THEN IF Len(urls) + 1 >= max THEN Append(urls, Head(found))
         ELSE YahooCollect(Append(urls, Head(found)), Tail(found), max)
    ELSE YahooCollect(urls, Tail(found), max)

SearchInit ==
    sc \in {[kind |-> k, pc |-> "call", max |-> n, urls |-> <<>>,
             start |-> 1, result |-> <<>>] :
                k \in {"ddg", "yahoo"}, n \in 0..MaxResults}

SearchFrame ==
    UNCHANGED <<batchVars, cliVars, selVars, quotaVars, fieldVars, quickVars,
                hostVars, raceVars, px, ga>>

\* the search returns what it has, cut to max_results
Returned(urls) ==
    [sc EXCEPT !.pc = "returned", !.urls = urls,
               !.result = Prefix(urls, sc.max)]

\* "while len(urls) < max_results" with the list as it stands
WhileTest(urls, start) ==
    IF Len(urls) < sc.max
    THEN [sc EXCEPT !.pc = "loop", !.urls = urls, !.start = start]
    ELSE Returned(urls)

\* YahooImagesClient.search_image_urls up to its loop (yahoo_api.py 31-34)
YahooCall ==
    /\ sc.kind = "yahoo"
    /\ sc.pc = "call"
    /\ sc' = WhileTest(<<>>, 1)
    /\ SearchFrame

\* one turn of the loop (yahoo_api.py 35-49); raised: the request raises
YahooPage(page, raised) ==
    /\ sc.kind = "yahoo"
    /\ sc.pc = "loop"
    /\ sc.start < 1 + YahooPageSize * MaxPages
    /\ sc' = IF raised THEN [sc EXCEPT !.pc = "raised"]
             ELSE IF page.status # 200 THEN Returned(sc.urls)
             ELSE LET urls == YahooCollect(sc.urls, page.found, sc.max)
                  IN  IF ~page.more THEN Returned(urls)
                      ELSE WhileTest(urls, sc.start + YahooPageSize)
    /\ SearchFrame

\* DuckDuckGoClient.search_images up to its loop (ddg_api.py 71-112): the
\* ddgs library, when there and giving items, answers alone; else the vqd
\* token is fetched, which can raise
DdgCall(items, vqd) ==
    /\ sc.kind = "ddg"
    /\ sc.pc = "call"
    /\ sc' = IF items # <<>> THEN Returned(items)
             ELSE IF ~vqd THEN [sc EXCEPT !.pc = "raised"]
             ELSE WhileTest(<<>>, 1)
    /\ SearchFrame

\* one turn of the loop (ddg_api.py 113-136): every result of the page is
\* appended; raised: the request or resp.json() raises
DdgPage(page, raised) ==
    /\ sc.kind = "ddg"
    /\ sc.pc = "loop"
    /\ sc' = IF raised THEN [sc EXCEPT !.pc = "raised"]
             ELSE IF page.status # 200 THEN Returned(sc.urls)
             ELSE LET items == sc.urls \o page.found
                  IN  IF ~page.more THEN Returned(items)
                      ELSE WhileTest(items, sc.start)
    /\ SearchFrame

SearchNext ==
    \/ YahooCall
    \/ \E page \in Pages, raised \in BOOLEAN : YahooPage(page, raised)
    \/ \E items \in SeqsOf(PageUrls, 0, MaxPageItems), vqd \in BOOLEAN :
          DdgCall(items, vqd)
    \/ \E page \in Pages, raised \in BOOLEAN : DdgPage(page, raised)

---------------------------------------------------------------------------
(* PexelsApiClient.pick_best_src_url (pexels_api.py 53-63).                *)

\* the keys a src map can have: Pexels' sizes and one it does not know
SizeKeys == {"large", "large2x", "original", "medium", "small", "tiny"}

\* what a key of src can hold: a URL, the empty string, or something that
\* is not a string (None, a number)
SrcValues ==
    {[str |-> TRUE, text |-> U1], [str |-> TRUE, text |-> U2],
     [str |-> TRUE, text |-> <<>>], [str |-> FALSE, text |-> <<>>]}

\* photo["src"] when it is not a map (a string, a list)
NotAMap == [map |-> FALSE, at |-> <<>>]

\* photo["src"] as a map; a photo without "src", or with None there, gives
\* the empty map ("photo.get("src") or {}")
SrcMap(f) == [map |-> TRUE, at |-> f]

Srcs ==
    {NotAMap} \cup
    {SrcMap(f) : f \in UNION {[d -> SrcValues] :
                     d \in {k \in SUBSET SizeKeys :
                                Cardinality(k) <= MaxSrcKeys}}}

\* the fallback sizes tried without the preferred one
CandidatesFixed(preferred_size) ==
    <<"large2x", "large2x", "original", "medium", "small">>

\* candidates = [preferred_size, "large2x", "original", "medium", "small"]
Candidates(preferred_size) ==
    <<preferred_size, "large2x", "original", "medium", "small">>

\* the loop of pick_best_src_url from the j-th candidate on
RECURSIVE PickFrom(_, _, _)
PickFrom(f, keys, j) ==
    IF j > Len(keys) THEN None
    ELSE IF keys[j] \in DOMAIN f /\ f[keys[j]].str
            /\ f[keys[j]].text # <<>>
    THEN Some(f[keys[j]].text)
    ELSE PickFrom(f, keys, j + 1)

pick_best_src_url(src, preferred_size) ==
    IF ~src.map THEN None
    ELSE PickFrom(src.at, Candidates(preferred_size), 1)

PickInit ==
    px \in {[pc |-> "call", src |-> c, preferred |-> k, ret |-> None] :
               c \in Srcs, k \in {"large", "medium", "tiny"}}

PickCall ==
    /\ px.pc = "call"
    /\ px' = [px EXCEPT !.pc = "returned",
                        !.ret = pick_best_src_url(px.src, px.preferred)]
    /\ UNCHANGED <<batchVars, cliVars, selVars, quotaVars, fieldVars,
                   quickVars, hostVars, raceVars, sc, ga>>

\* ---- GoogleGenAIClient.generate_images (google_genai.py 51-125)

\* the keys cfg always has (google_genai.py 61-65)
BaseCfg == {"number_of_images", "output_mime_type", "aspect_ratio"}

\* str(e) of what the backend raises, word by word: the SDK's complaint
\* about the enum, the API's complaint about the field, a complaint in
\* another spelling, and one about something else
Messages ==
    {<<"PersonGeneration", "unsupported">>,
     <<"invalid", "person_generation">>,
     <<"persongeneration", "unsupported">>,
     <<"quota", "exceeded">>}

\* "word in msg"
Mentions(msg, word) == \E k \in 1..Len(msg) : msg[k] = word

\* a retry after every failure
RetryAlways(msg) == TRUE

\* "PersonGeneration" in msg or "person_generation" in msg
RetryTest(msg) ==
    Mentions(msg, "PersonGeneration") \/ Mentions(msg, "person_generation")

\* what one call of the backend does: it returns a result with so many
\* generated_images, or raises
BackendOutcomes ==
    {<<"return", n, <<>>>> : n \in 0..1} \cup
    {<<"raise", 0, msg>> : msg \in Messages}

\* generate_images is entered: cfg is built, with person_generation when the
\* argument is given and not empty (google_genai.py 61-67)
GenInit ==
    ga \in {[pc |-> "first",
             cfg |-> IF pg THEN BaseCfg \cup {"person_generation"}
                     ELSE BaseCfg,
             sent |-> <<>>, ret |-> 0, exc |-> None] : pg \in BOOLEAN}

GenFrame ==
    UNCHANGED <<batchVars, cliVars, selVars, quotaVars, fieldVars, quickVars,
                hostVars, raceVars, sc, px>>

\* google_genai.py 69-86: the first call of the backend and its except
\* clause up to the retry
GenFirst(out, n, msg) ==
    /\ ga.pc = "first"
    /\ ga' = IF out = "return"
             THEN [ga EXCEPT !.pc = "returned", !.ret = n,
                             !.sent = Append(@, ga.cfg)]
             ELSE IF RetryTest(msg)
             THEN [ga EXCEPT !.pc = "retry", !.exc = Some(msg),
                             !.cfg = @ \ {"person_generation"},
                             !.sent = Append(@, ga.cfg)]
             ELSE [ga EXCEPT !.pc = "raised", !.exc = Some(msg),
                             !.sent = Append(@, ga.cfg)]
    /\ GenFrame

\* google_genai.py 80-84: the call inside the except clause; what it raises
\* leaves generate_images
GenRetry(out, n, msg) ==
    /\ ga.pc = "retry"
    /\ ga' = IF out = "return"
             THEN [ga EXCEPT !.pc = "returned", !.ret = n,
                             !.sent = Append(@, ga.cfg)]
             ELSE [ga EXCEPT !.pc = "raised", !.exc = Some(msg),
                             !.sent = Append(@, ga.cfg)]
    /\ GenFrame

GenNext ==
    \E o \in BackendOutcomes :
        GenFirst(o[1], o[2], o[3]) \/ GenRetry(o[1], o[2], o[3])

ClientNext == SearchNext \/ PickCall \/ GenNext

InitClients ==
    /\ \/ SearchInit /\ px = NoPick /\ ga = NoGen
       \/ sc = NoSearch /\ PickInit /\ ga = NoGen
       \/ sc = NoSearch /\ px = NoPick /\ GenInit
    /\ HostIdle /\ RaceIdle /\ QuotaIdle
    /\ SelIdle /\ SelConfig /\ BatchOff /\ CliOff /\ FieldIdle /\ QuickOff

SpecClients == InitClients /\ [][ClientNext]_vars

---------------------------------------------------------------------------
(* Claims about the selector *)

Distinct(s) == \A a, b \in 1..Len(s) : a # b => s[a] # s[b]

\* the offsets of the circular scan whose candidate is not yet used
FreeOffsets(c, start, used) ==
    {off \in 0..(Len(c) - 1) : At(c, (start + off) % Len(c)) \notin used}

\* C3: for a non-empty candidate list c, key k and dedup set D the selector
\* returns c[(start + off) mod len(c)] for the smallest off in 0..len(c)-1
\* whose candidate is not in D, where start = k mod len(c), and c[start]
\* when every candidate of c is in D.
C3_SelectorScan ==
    sel_runs > 0 =>
        LET c     == sel_cands
            start == sel_key % Len(c)
            free  == FreeOffsets(c, start, sel_before)
        IN  sel_pick = Some(IF free = {} THEN At(c, start)
                            ELSE At(c, (start + Min(free)) % Len(c)))

\* C3 witness: the candidate at start was used and the scan wrapped past
\* the end of the list to an unused one.
C3_Witness ==
    /\ sel_runs > 0
    /\ Len(sel_cands) >= 2
    /\ sel_key % Len(sel_cands) = Len(sel_cands) - 1
    /\ At(sel_cands, Len(sel_cands) - 1) \in sel_before
    /\ sel_pick[1] \notin sel_before

C5_DistinctUpToLength ==
    Len(sel_picks) <= Len(sel_cands) => Distinct(sel_picks)

\* C5 amended: N successful selections over one list, starting from an
\* empty dedup set, are pairwise distinct whenever N is at most the number
\* of distinct URLs in the list; a URL is chosen again only beyond that.
C5_DistinctUpToDistinctUrls ==
    Len(sel_picks) <= Cardinality(Range(sel_cands)) => Distinct(sel_picks)

\* C5 witness: every distinct URL of a list with a repeated URL has been
\* chosen once.
C5_Witness ==
    /\ Len(sel_picks) = Cardinality(Range(sel_cands))
    /\ Len(sel_picks) >= 2
    /\ Len(sel_cands) > Cardinality(Range(sel_cands))
    /\ Distinct(sel_picks)

---------------------------------------------------------------------------
(* Claims about the provider chain of the batch run *)

\* the label a provider's errors carry in last_error
Label(provider) ==
    CASE provider = "ddg" -> "DDG"
      [] provider = "yahoo" -> "Yahoo"
      [] provider = "google" -> "Google"
      [] OTHER -> provider

\* the providers of a list that have a configured client in the batch run
WithClient(o) ==
    SelectSeq(o, LAMBDA x : x \in {"ddg", "yahoo"}
                            \/ (x = "google" /\ google_client))

Last(s) == s[Len(s)]

\* the providers called for the note so far are exactly those of the first
\* n entries of provider_order, in that order
CalledFirst(n) ==
    /\ n <= Len(provider_order)
    /\ called = WithClient(SubSeq(provider_order, 1, n))

\* the dialog's mode is the image search
SearchMode == provider_mode = "google"

C1_Order ==
    /\ pc = "providers" => SearchMode /\ content = None /\ CalledFirst(p - 1)
    /\ (SearchMode /\ pc = "write" /\ content # None) =>
           /\ CalledFirst(p)
           /\ called # <<>>
           /\ content[1][1] = Last(called)
    /\ (SearchMode /\ pc = "write" /\ content = None) =>
           CalledFirst(Len(provider_order))

C1_AfterSuccess ==
    (pc = "write" /\ content # None) =>
        /\ called' = called
        /\ content' = content
        /\ log' = log

\* C1: for each note the providers of provider_order are tried strictly in
\* list order; once a provider's search, selection and fetch succeeded no
\* later provider is called for that note; with [A, B], A failing and B
\* succeeding, the note gets B's payload and no failure is logged for it.
C1_FallbackOrder == []C1_Order /\ [][C1_AfterSuccess]_vars

\* C1 witness: the first provider raised, the second one served the note,
\* and the note was finished without an error line.
C1_Witness ==
    /\ pc = "loop"
    /\ i = 1
    /\ Len(called) = 2
    /\ content # None
    /\ content[1][1] = provider_order[2]
    /\ last_error # None
    /\ log = <<>>

\* C2 as claimed: a provider that was called and gave no payload has its
\* failure in last_error, whatever the failure was.
C2_AnyFailureRecorded ==
    (pc \in {"providers", "write"} /\ content = None /\ called # <<>>) =>
        \E c \in Causes \cup {"no image url", ZeroDivision} :
            last_error = Some(Label(Last(called)) \o ": " \o c)

C2_Raised ==
    (pc \in {"providers", "write"} /\ caught # None) =>
        /\ content = None
        /\ called # <<>>
        /\ last_error = Some(Label(Last(called)) \o ": " \o caught[1])

C2_Turn ==
    (pc = "providers" /\ called' # called) =>
        /\ i' = i
        /\ content' = None =>
              /\ p' = p + 1
              /\ pc' = IF p < Len(provider_order) THEN "providers"
                       ELSE "write"
              /\ caught' = None => last_error' = last_error

C2_AllKeys == pc = "done" => i = Len(nids)

\* C2 amended: an exception raised by a provider's search, selection or
\* fetch for a note is caught inside the provider loop and recorded as
\* last_error = "<provider>: <cause>"; a search that returns an empty list
\* raises nothing and leaves last_error as it was; either way the next
\* provider is tried, nothing leaves the per-note step, and every later
\* note of the run is still processed.
C2_FailureIsolated == []C2_Raised /\ [][C2_Turn]_vars /\ []C2_AllKeys

\* C2 witness: the first note's only provider raised, and the run went on
\* to the second note.
C2_Witness ==
    /\ i = 2
    /\ pc = "providers"
    /\ log # <<>>
    /\ updated = 0

C6_Empty == (pc = "loop" /\ i = 0) => used_urls = {}

C6_Member ==
    (SearchMode /\ pc \in {"write", "loop"} /\ i > 0 /\ content # None) =>
        content[1][2] \in used_urls

\* C6: used_urls is empty when the run starts and only grows: no step
\* removes an element; after a note served by a search provider the URL
\* chosen for it is in the set.
C6_DedupGrows ==
    []C6_Empty /\ [][used_urls \subseteq used_urls']_vars /\ []C6_Member

\* C6 witness: both notes were served, by different URLs.
C6_Witness ==
    /\ pc = "loop"
    /\ i = 2
    /\ Cardinality(used_urls) = 2
    /\ updated = 2

\* C8 as claimed: a note no provider served has an error, the last one
\* recorded or "no provider available", and that is what is logged for it.
C8_AlwaysAnError ==
    [][(pc = "write" /\ content = None) =>
          log' = Append(log, ErrorLine(note[QueryField],
                     IF last_error # None THEN last_error[1]
                     ELSE "no provider available"))]_vars

\* C8 amended: a note no provider served is a failure whose error is the
\* last recorded provider error, which is logged; when no provider
\* recorded an error (all skipped or all returned nothing) the note has no
\* error text at all and nothing is logged; nothing is written to the
\* note or the media folder for it.
C8_FailedKey ==
    [][(pc = "write" /\ (content = None \/ filename_hint = None)) =>
          /\ log' = IF last_error # None
                    THEN Append(log, ErrorLine(note[QueryField],
                                               last_error[1]))
                    ELSE log
          /\ store' = store
          /\ note' = note
          /\ media' = media
          /\ updated' = updated]_vars

\* C8 witness: a note whose providers returned nothing was finished
\* without a line in the log.
C8_Witness ==
    /\ pc = "loop"
    /\ i = 1
    /\ note # NoNote
    /\ called # <<>>
    /\ content = None
    /\ last_error = None
    /\ log = <<>>
    /\ store = <<>>

\* C9 as claimed: at the end of the provider loop a note that holds a
\* payload holds no error, and a note that holds an error holds no payload.
C9_NeverBoth ==
    pc = "write" =>
        /\ (content # None) <=> (filename_hint # None)
        /\ ~(content # None /\ last_error # None)

\* C9 amended: at the end of the provider loop the payload and the
\* filename hint are set together or not at all; a note that holds a payload
\* may still hold the error of an earlier provider in last_error, which is
\* then not logged; a note without a payload holds an error or nothing.
C9_PayloadWithHint ==
    /\ (pc = "write") => ((content # None) <=> (filename_hint # None))
    /\ (pc = "write" /\ content # None /\ last_error # None) =>
           /\ Len(called) >= 2
           /\ \E j \in 1..(Len(called) - 1), c \in Causes \cup
                    {"no image url", ZeroDivision} :
                  last_error = Some(Label(called[j]) \o ": " \o c)

\* C9 witness: a payload from the second provider beside the error of the
\* first.
C9_Witness ==
    /\ pc = "write"
    /\ content # None
    /\ filename_hint # None
    /\ last_error # None

---------------------------------------------------------------------------
(* Claims about providers without a credential *)

\* a provider without its credential is never called
C7_NeverCalled ==
    /\ ~google_client => \A j \in 1..Len(called) : called[j] # "google"
    /\ ~pexels_api_key =>
           \A j \in 1..Len(cli_called) : cli_called[j] # "pexels"

\* the batch run at "google" without a google_client
C7_BatchSkip ==
    (/\ pc = "providers"
     /\ p <= Len(provider_order)
     /\ provider_order[p] = "google"
     /\ ~google_client) =>
        /\ called' = called
        /\ last_error' = last_error
        /\ content' = content
        /\ p' = p + 1
        /\ pc' = IF p < Len(provider_order) THEN "providers" ELSE "write"

\* the command-line fetcher at "pexels" without an api key
C7_CliSkip ==
    (/\ cli_pc = "main"
     /\ cli_pos <= Len(provider_order)
     /\ saved < count
     /\ provider_order[cli_pos] = "pexels"
     /\ ~pexels_api_key) =>
        /\ cli_called' = cli_called
        /\ saved' = saved
        /\ cli_pos' = cli_pos + 1
        /\ cli_pc' = "main"

\* C7: a provider of the order whose credential is missing (Google without
\* api key or cx in the batch run, Pexels without api key in the
\* command-line fetcher) is passed over without a call to it and without a
\* change of last_error, and the loop goes on to the providers after it.
C7_SkipUnconfigured ==
    []C7_NeverCalled /\ [][C7_BatchSkip /\ C7_CliSkip]_vars

\* C7 witness: Google stood first without a client, and the provider after
\* it was called and served the note with no error recorded.
C7_Witness ==
    /\ pc = "write"
    /\ Len(provider_order) >= 2
    /\ provider_order[1] = "google"
    /\ ~google_client
    /\ Len(called) = 1
    /\ called[1] = provider_order[2]
    /\ content # None
    /\ last_error = None

---------------------------------------------------------------------------
(* Claims about the quota file *)

\* the file holds the record of an earlier day
Stale == quota_file # NoFile /\ quota_file[1].date # today

\* what the label shows after it is filled in is today's stored count, and
\* 0 when the file holds no record of today
C10_Shown ==
    quota_op.op = "display" =>
        quota_label = Some(IF quota_file # NoFile /\ ~Stale
                           THEN quota_file[1].google_used ELSE 0)

\* every operation that meets the record of an earlier day works on
\* {date: today, used: 0}
C10_Step ==
    Stale =>
        /\ quota_op'.op = "display" =>
               /\ quota_label' = Some(0)
               /\ quota_file' \in {quota_file, <<FreshQuota(today)>>}
        /\ quota_op'.op \in {"increment", "global"} =>
               quota_file' \in {quota_file,
                                <<[date |-> today,
                                   google_used |-> quota_op'.inc]>>}

\* C10: the stored quota of an earlier day is never seen as today's usage:
\* when the stored date differs from today every reader of the record, the
\* label's display and both increments, works on {date: today, used: 0},
\* also before any increment has run.
C10_DayRollover == []C10_Shown /\ [][C10_Step]_vars

\* C10 witness: the file holds 2 uses of day 1 (the write of the reset
\* record failed), it is day 2, and the label was filled in before any
\* increment of the new day: it shows 0.
C10_Witness ==
    /\ today = 2
    /\ quota_op.op = "display"
    /\ quota_label = Some(0)
    /\ quota_file = <<[date |-> 1, google_used |-> 2]>>

\* today's stored count: 0 when the file is missing or of another day
StoredToday ==
    IF quota_file # NoFile /\ ~Stale THEN quota_file[1].google_used ELSE 0

C11_Step ==
    quota_op'.op \in {"increment", "global"} =>
        quota_file' =
            IF quota_op'.inc > 0 /\ quota_op'.ok
            THEN <<[date |-> today,
                    google_used |-> StoredToday + quota_op'.inc]>>
            ELSE quota_file

\* C11: increment(n) with n > 0 reads the stored record again and stores
\* {date: today, used: u + n}, u being the stored used when the stored date
\* is today and 0 when it is another day or the file is missing (a write
\* that fails is passed over and leaves the file); increment(n) with
\* n <= 0 leaves the file as it is. Both increments do so.
C11_Increment == [][C11_Step]_vars

\* C11 witness: on day 2 the file held 2 uses of day 2 and an increment of
\* 1 stored 3.
C11_Witness ==
    /\ today = 2
    /\ quota_op = [op |-> "increment", inc |-> 1, ok |-> TRUE]
    /\ quota_file = <<[date |-> 2, google_used |-> 3]>>

C12_Natural ==
    quota_file # NoFile => quota_file[1].google_used \in Nat

C12_Step ==
    quota_file' # quota_file =>
        /\ quota_file' # NoFile
        /\ IF quota_file # NoFile
              /\ quota_file'[1].date = quota_file[1].date
           THEN quota_file'[1].google_used >= quota_file[1].google_used
           ELSE /\ quota_file'[1].date = today
                /\ quota_file'[1].google_used =
                       IF quota_op'.op \in {"increment", "global"}
                       THEN quota_op'.inc ELSE 0

\* C12: over any sequence of displays, increments and days the stored used
\* is a natural number that never decreases while the stored date stays
\* the same; when the stored date changes it becomes today and used
\* restarts from 0, plus the increment that made the change.
C12_UsedWithinDay == []C12_Natural /\ [][C12_Step]_vars

\* C12 witness: the file of day 1 held 2 uses; on day 3 the display reset
\* it and a quick-add stored 1.
C12_Witness ==
    /\ today = 3
    /\ quota_op = [op |-> "global", inc |-> 1, ok |-> TRUE]
    /\ quota_file = <<[date |-> 3, google_used |-> 1]>>

\* the batch run has come to "google" in the order and holds a client
C13_GoogleTurn ==
    /\ pc = "providers"
    /\ p <= Len(provider_order)
    /\ provider_order[p] = "google"
    /\ google_client

\* the quick-add has a card with a query and holds the keys
C13_QuickTurn ==
    /\ card # NoNote
    /\ Strip(get_field_value(card, QueryField)) # <<>>
    /\ google_client

\* the stored count of a started dialog or reviewer is at or above the cap
C13_AtCap ==
    (pc \notin {"off"} \/ card # NoNote) =>
        /\ quota_file # NoFile
        /\ quota_file[1].google_used >= QuotaCap

C13_Step ==
    /\ C13_GoogleTurn => called' = Append(called, "google")
    /\ (C13_QuickTurn /\ qa_runs' # qa_runs /\ qa_last'.kind = "google") =>
           qa_calls' = qa_calls + 1
    /\ (pc = "loop" /\ pc' = "done" /\ google_used_in_run > 0
            /\ quota_op'.ok) =>
           /\ quota_file'[1].google_used =
                  quota_file[1].google_used + google_used_in_run
           /\ quota_label' = Some(quota_file'[1].google_used)
    /\ (qa_runs' # qa_runs /\ qa_last'.kind = "google"
            /\ qa_msg' = "Image added to current card." /\ quota_op'.ok) =>
           quota_file'[1].google_used = quota_file[1].google_used + 1

\* C13: with the stored used at or above 100, the batch run at google's
\* turn and the quick-add with its keys still send the search to Google,
\* and the increment after them stores used + n as below the cap, so the
\* stored used stays at or above 100 and goes beyond it.
C13_NeverBlocks == []C13_AtCap /\ [][C13_Step]_vars

\* a batch run that began at the cap has ended with Google having served
\* both keys and the stored count two above the cap
C13_Witness ==
    /\ pc = "done"
    /\ google_used_in_run = 2
    /\ quota_file = <<[date |-> today, google_used |-> QuotaCap + 2]>>
    /\ quota_label = Some(QuotaCap + 2)

\* the step is the end of the batch run's loop
C14_AfterLoop == pc = "loop" /\ pc' = "done"

\* the step is google's turn ending with a payload for the key
C14_ServedByGoogle ==
    /\ pc = "providers"
    /\ p <= Len(provider_order)
    /\ provider_order[p] = "google"
    /\ content = None
    /\ content' # None

C14_Step ==
    /\ (pc # "off" /\ ~C14_AfterLoop) =>
           UNCHANGED <<quota_file, quota_label, quota_op>>
    /\ pc # "idle" =>
           google_used_in_run' =
               IF C14_ServedByGoogle THEN google_used_in_run + 1
               ELSE google_used_in_run
    /\ C14_AfterLoop =>
           IF google_used_in_run = 0
           THEN UNCHANGED <<quota_file, quota_label, quota_op>>
           ELSE /\ quota_op'.op = "run"
                /\ quota_op'.inc = google_used_in_run
                /\ quota_file' =
                       IF quota_op'.ok
                       THEN <<[date |-> today,
                               google_used |->
                                   StoredToday + google_used_in_run]>>
                       ELSE quota_file

\* C14: in a batch run no step before the end of the loop writes the quota
\* file; google_used_in_run goes up by one exactly at the steps where
\* google's turn yields the key's payload; the step after the loop calls
\* the increment with google_used_in_run when it is not 0 and leaves the
\* quota file alone when it is 0, and no later step writes the file.
C14_OneIncrement == [][C14_Step]_vars

\* a run in which Google served one of the two keys has ended, and the
\* file holds that one use
C14_Witness ==
    /\ pc = "done"
    /\ i = Len(nids)
    /\ google_used_in_run = 1
    /\ quota_op = [op |-> "run", inc |-> 1, ok |-> TRUE]
    /\ quota_file = <<[date |-> today, google_used |-> 1]>>

\* the fields a batch run writes to
C15_Fields == {TargetField, ImageField, AudioField, SentenceField}

\* the step is one that writes the loaded note's fields
C15_Writes == pc \in {"write", "nadeshiko"}

\* the step leaves every filled field of the loaded note, and the stored
\* notes, as they are
C15_FilledKept ==
    /\ DOMAIN note' = DOMAIN note
    /\ \A f \in C15_Fields \cap DOMAIN note :
           note[f] # <<>> => note'[f] = note[f]
    /\ \A n \in DOMAIN store :
           /\ n \in DOMAIN store'
           /\ \A f \in C15_Fields \cap DOMAIN store[n] :
                  store[n][f] # <<>> => store'[n][f] = store[n][f]

\* the step writes a payload to the target field of a note that has one
C15_Payload ==
    /\ pc = "write"
    /\ content # None
    /\ filename_hint # None
    /\ TargetField \in DOMAIN note

C15_Overwritten ==
    /\ note'[TargetField] =
           ImgTag(write_data(filename_hint[1], content[1]))
    /\ store' = (nid :> note') @@ store
    /\ updated' = updated + 1

\* C15 as stated: in every mode a run with replace = false leaves a filled
\* field as it is
C15_Original == [][(C15_Writes /\ ~replace) => C15_FilledKept]_vars

C15_Step ==
    /\ (C15_Writes /\ ~replace /\ provider_mode # "gemini") =>
           C15_FilledKept
    /\ (C15_Payload /\ (replace \/ provider_mode = "gemini")) =>
           C15_Overwritten

\* C15: in the search mode and the Nadeshiko mode the field writes get the
\* dialog's replace flag, so with replace = false a filled field is left as
\* it is; in the Gemini mode the field write gets replace = true whatever
\* the flag says, and a filled target field is overwritten.
C15_ReplaceByMode == [][C15_Step]_vars

\* a search-mode run without replace got a payload for a note whose target
\* field was filled, and the write left the field and the count alone
C15_Witness ==
    /\ provider_mode = "google"
    /\ ~replace
    /\ pc = "loop"
    /\ i = 1
    /\ content # None
    /\ filename_hint # None
    /\ TargetField \in DOMAIN note
    /\ note[TargetField] = OldText
    /\ updated = 0
    /\ store = <<>>

\* the tag the last field write was to store
C16_Tag ==
    IF fw_call.kind = "image" THEN ImgTag(fw_call.name)
    ELSE AudioTag(fw_call.name)

\* the last field write was refused: the field is absent, or it is filled
\* and replace is false
C16_Refused ==
    \/ fw_call.field \notin DOMAIN fw_before
    \/ fw_before[fw_call.field] # <<>> /\ ~fw_call.rep

\* C16 as stated: the field write returns true exactly when the note is not
\* what it was
C16_Original ==
    fw_call # NoCall => (fw_ret <=> fw_note # fw_before)

\* C16: a field write of an absent field, or of a filled field with replace
\* = false, returns false and leaves the note as it is (so a replace =
\* false write repeated on the filled field does nothing); every other
\* field write returns true and leaves the field holding exactly the new
\* tag, the other fields as they were - also when the field already held
\* that very tag, where true is returned for a note that is what it was.
C16_FieldWrite ==
    fw_call # NoCall =>
        IF C16_Refused
        THEN ~fw_ret /\ fw_note = fw_before
        ELSE /\ fw_ret
             /\ fw_note = [fw_before EXCEPT ![fw_call.field] = C16_Tag]

\* a replace = false write met the tag an earlier write had stored and was
\* refused
C16_Witness ==
    /\ fw_call.kind = "image"
    /\ ~fw_call.rep
    /\ fw_call.field \in DOMAIN fw_before
    /\ fw_before[fw_call.field] = ImgTag(<<"b">>)
    /\ ~fw_ret
    /\ fw_note = fw_before

\* the step hands a payload to the field write, which takes it: the note
\* has the target field, and the field is empty or replace is in force
C17_ImageReported ==
    /\ content # None
    /\ filename_hint # None
    /\ TargetField \in DOMAIN note
    /\ (note[TargetField] = <<>> \/ replace \/ provider_mode = "gemini")

\* the Nadeshiko step was free to write field f and left a tag in it
C17_TagWritten(f, head) ==
    /\ f \in DOMAIN note
    /\ (replace \/ note[f] = <<>>)
    /\ note'[f] # <<>>
    /\ note'[f][1] = head

\* the Nadeshiko step came to its flush having written a field
C17_NadeReported ==
    /\ pc' = "loop"
    /\ nid \in DOMAIN store'
    /\ \/ SentenceField \in DOMAIN note
             /\ (replace \/ note[SentenceField] = <<>>)
       \/ C17_TagWritten(ImageField, "<img src=")
       \/ C17_TagWritten(AudioField, "[sound:")

C17_Step ==
    updated' =
        IF \/ pc = "write" /\ C17_ImageReported
           \/ pc = "nadeshiko" /\ C17_NadeReported
        THEN updated + 1
        ELSE updated

\* the notes counted are among the notes loaded and among the notes
\* flushed; outside the Nadeshiko mode a note is flushed only when counted
C17_Counted ==
    pc \notin {"off", "idle", "aborted"} =>
        /\ updated <= i
        /\ updated <= Cardinality(DOMAIN store)
        /\ provider_mode # "nadeshiko" =>
               updated = Cardinality(DOMAIN store)

\* C17: updated starts at 0 and goes up by one exactly at the step of a key
\* whose field write reported a change (in the Nadeshiko mode: whose
\* sentence, image or audio write did, once for the key); a key with a
\* payload whose field write was refused leaves it, and so does every
\* other step. Hence updated at the end is the number of such keys.
C17_UpdatedCount == []C17_Counted /\ [][C17_Step]_vars

\* the first key was written and counted; the second got a payload, but its
\* target field was filled and replace is off, so the count stayed at 1
C17_Witness ==
    /\ provider_mode = "google"
    /\ ~replace
    /\ pc = "loop"
    /\ i = 2
    /\ content # None
    /\ filename_hint # None
    /\ TargetField \in DOMAIN note
    /\ note[TargetField] = OldText
    /\ DOMAIN store = {nids[1]}
    /\ updated = 1

\* the step loads the next note
C18_Loads == pc = "loop" /\ i' = i + 1

\* the note the step loaded has no query field or an empty one
C18_NoQuery ==
    \/ QueryField \notin DOMAIN note'
    \/ note'[QueryField] = <<>>

C18_Step ==
    C18_Loads =>
        IF C18_NoQuery
        THEN /\ pc' = "loop"
             /\ empty_queries' = empty_queries + 1
             /\ UNCHANGED <<called, updated, used_urls, google_used_in_run,
                            nade_no_result, store, media, log, content,
                            filename_hint, last_error, quotaVars>>
        ELSE /\ pc' \in {"providers", "gemini", "nadeshiko"}
             /\ UNCHANGED empty_queries

\* C18: the step that loads a note whose query field is absent or empty is
\* the whole of that key: no provider is called, updated, used_urls,
\* google_used_in_run, the stored notes, the media folder and the quota file
\* stay as they are, only empty_queries goes up, and the loop is at its head
\* again for the next key; a note with a query goes on to its providers.
C18_EmptyQuerySkipped == [][C18_Step]_vars

\* the first note had no query field: it is over with nothing called or
\* written, and the loop stands before the second note
C18_Witness ==
    /\ pc = "loop"
    /\ i = 1
    /\ note # NoNote
    /\ QueryField \notin DOMAIN note
    /\ empty_queries = 1
    /\ called = <<>>
    /\ updated = 0
    /\ store = <<>>

\* Nadeshiko is selected without nadeshiko_api_key, or Gemini without
\* google_genai_api_key and GEMINI_API_KEY
C19_Lacking ==
    \/ provider_mode = "nadeshiko" /\ ~nadeshiko_api_key
    \/ provider_mode = "gemini" /\ ~genai_api_key

\* a run that stopped has read no note, called no provider and written
\* nothing
C19_Untouched ==
    pc = "aborted" =>
        /\ C19_Lacking
        /\ i = 0
        /\ note = NoNote
        /\ called = <<>>
        /\ store = <<>>
        /\ media = {}
        /\ log = <<>>
        /\ updated = 0
        /\ last_settings = {}
        /\ quota_op = NoOp
        /\ quota_file = <<FreshQuota(today)>>

C19_Step ==
    /\ (pc = "idle" /\ C19_Lacking) =>
           /\ pc' = "aborted"
           /\ UNCHANGED <<i, nid, note, called, store, media, log, updated,
                          last_settings, quotaVars>>
    /\ pc = "aborted" => UNCHANGED vars

\* C19: a batch run started in the Nadeshiko mode without nadeshiko_api_key,
\* or in the Gemini mode without google_genai_api_key and GEMINI_API_KEY,
\* can only stop at once: no note is loaded, no provider called, no note or
\* media file written, the quota file and the last-used settings stay as
\* they are, and nothing follows.
C19_AbortsFirst == []C19_Untouched /\ [][C19_Step]_vars

\* a Gemini run without a key has stopped before its first note
C19_Witness ==
    /\ pc = "aborted"
    /\ provider_mode = "gemini"
    /\ ~genai_api_key
    /\ i = 0
    /\ note = NoNote
    /\ last_settings = {}

\* the provider's name as the characters of a file name
C20_Chars(provider) ==
    CASE provider = "ddg" -> <<"d", "d", "g">>
      [] provider = "yahoo" -> <<"y", "a", "h", "o", "o">>
      [] provider = "google" -> <<"g", "o", "o", "g", "l", "e">>

\* the hint as stated: the URL's last segment without its query, or
\* "<provider>_<key>.jpg" when that is empty or has no "."
C20_Stated(provider, url, n) ==
    LET tail == UrlTail(url)
    IN  IF tail = <<>> \/ "." \notin Range(tail)
        THEN DefaultName(C20_Chars(provider), n)
        ELSE tail

\* the hint the code derives: only ddg replaces a last segment without a "."
C20_Derived(provider, url, n) ==
    LET tail == UrlTail(url)
    IN  IF tail = <<>> \/ (provider = "ddg" /\ "." \notin Range(tail))
        THEN DefaultName(C20_Chars(provider), n)
        ELSE tail

\* the step is a search provider's turn ending with a payload
C20_Served == pc = "providers" /\ content = None /\ content' # None

\* C20 as stated: whichever search provider served the key, the hint is the
\* last segment of the pick's URL without its query, or the synthesized name
\* when that segment is empty or has no extension
C20_Original ==
    [][C20_Served =>
          filename_hint' =
              Some(C20_Stated(content'[1][1], content'[1][2], nid))]_vars

\* what holds instead: yahoo and google keep a last segment that has no
\* extension, and every hint goes through ensure_media_filename_safe
C20_HintDerived ==
    [][C20_Served =>
          filename_hint' =
              Some(ensure_media_filename_safe(
                       C20_Derived(content'[1][1], content'[1][2], nid)))]_vars

\* yahoo served a key from a URL whose last segment is "b", and "b" is the
\* hint
C20_Witness ==
    /\ content = Some(Bytes("yahoo", U2))
    /\ filename_hint = Some(<<"b">>)

\* C21 as stated: a loop that stands at its head with an abort requested
\* loads no further note, and when the run ends the quota file has the uses
\* of the notes done
C21_Original ==
    [][/\ (pc = "loop" /\ abort_requested) => (i' = i /\ nid' = nid)
       /\ (pc = "loop" /\ pc' = "done" /\ google_used_in_run > 0
               /\ quota_op'.ok) =>
              quota_file' = <<[date |-> today,
                               google_used |->
                                   StoredToday + google_used_in_run]>>]_vars

\* what the loop does instead: with Cancel clicked after the first note it
\* has loaded the second
C21_Witness ==
    /\ abort_requested
    /\ i = 2
    /\ nid = nids[2]

\* both increments have written the file
C22_BothDone == procs # <<>> /\ \A pr \in RaceProcs : procs[pr].pc = "done"

C22_Sum == race_start + procs[1].inc + procs[2].inc

\* C22: each increment is a read of the quota file and, later, a write of
\* what was read plus inc, with nothing held in between. When both
\* increments have written and neither read while the other stood between
\* its read and the end of its write, the file holds today's count raised
\* by inc1 + inc2; when they did so overlap the file holds no more than
\* that, and it can hold less: an increment is lost.
C22_ReadThenWrite ==
    C22_BothDone =>
        /\ quota_file # NoFile
        /\ quota_file[1].date = today
        /\ quota_file[1].google_used <= C22_Sum
        /\ ~race_overlap => quota_file[1].google_used = C22_Sum

\* both processes read the stored 1 before either wrote: the file ends with
\* 1 + 2 where 1 + 1 + 2 uses were made
C22_Witness ==
    /\ C22_BothDone
    /\ race_overlap
    /\ race_start = 1
    /\ procs[1].inc = 1
    /\ procs[2].inc = 2
    /\ quota_file = <<[date |-> today, google_used |-> 3]>>

\* C23 as stated: whatever the server answers the search comes to an end -
\* every turn of its loop that is followed by another brings the list
\* nearer to max_results - and what it returns has at most max_results
\* entries
C23_Original ==
    /\ [][(sc.pc = "loop" /\ sc'.pc = "loop") =>
             Len(sc'.urls) > Len(sc.urls)]_vars
    /\ [](sc.pc = "returned" => Len(sc.result) <= sc.max)

\* Yahoo's loop stands where it stood after two pages that were answered
\* with a pointer to a next page and nothing new
C23_Witness ==
    /\ sc.kind = "yahoo"
    /\ sc.pc = "loop"
    /\ sc.start = 1 + 2 * YahooPageSize
    /\ sc.urls = <<>>

\* the key holds a non-empty string in the src map of the call
C24_Holds(k) ==
    /\ px.src.map
    /\ k \in DOMAIN px.src.at
    /\ px.src.at[k].str
    /\ px.src.at[k].text # <<>>

C24_Order == <<px.preferred, "large2x", "original", "medium", "small">>

\* the places in the order whose key holds a non-empty string
C24_Hits == {j \in 1..Len(C24_Order) : C24_Holds(C24_Order[j])}

\* C24: pick_best_src_url returns the string under the first of
\* preferred_size, "large2x", "original", "medium", "small" that holds a
\* non-empty string in src, and returns None exactly when none of them does
\* or src is not a map.
C24_FirstInOrder ==
    px.pc = "returned" =>
        IF C24_Hits = {} THEN px.ret = None
        ELSE px.ret = Some(px.src.at[C24_Order[Min(C24_Hits)]].text)

\* preferred "large" is absent, "large2x" holds the empty string, "medium"
\* holds a URL: that URL is returned
C24_Witness ==
    /\ px.pc = "returned"
    /\ px.preferred = "large"
    /\ px.src.map
    /\ DOMAIN px.src.at = {"large2x", "medium"}
    /\ px.src.at["large2x"] = [str |-> TRUE, text |-> <<>>]
    /\ px.src.at["medium"] = [str |-> TRUE, text |-> U1]
    /\ px.ret = Some(U1)

\* the last quick-add stored an image and the note has the image field
C25_ImageObtained ==
    /\ qa_last.image # None
    /\ TargetField \in DOMAIN qa_last.note

\* the last quick-add stored an audio file and the note has the audio field
C25_AudioObtained ==
    /\ qa_last.audio # None
    /\ AudioField \in DOMAIN qa_last.note

\* C25: after a quick-add (Google image, Nadeshiko media, GenAI image) that
\* stored media for a field the card's note has, the field of the note holds
\* the new tag alone, whatever it held before and whatever default_replace
\* says; and unless the action raised afterwards, that note is the stored one.
C25_AlwaysOverwrites ==
    /\ C25_ImageObtained =>
           qa_last.note[TargetField] = ImgTag(qa_last.image[1])
    /\ C25_AudioObtained =>
           qa_last.note[AudioField] = AudioTag(qa_last.audio[1])
    /\ (qa_last.kind # "none" /\ ~qa_last.raised) => card = qa_last.note

\* with default_replace off, a Nadeshiko quick-add has replaced the old
\* text of the image field and of the audio field by its tags
C25_Witness ==
    /\ qa_last.kind = "nadeshiko"
    /\ replace = FALSE
    /\ C25_ImageObtained
    /\ C25_AudioObtained
    /\ qa_last.before[ImageField] = OldText
    /\ qa_last.before[AudioField] = OldText
    /\ card[ImageField] = ImgTag(qa_last.image[1])
    /\ card[AudioField] = AudioTag(qa_last.audio[1])

\* the run is over and, if it had uses to store, the quota write went
\* through
C26_Ended ==
    /\ pc \in {"done", "aborted"}
    /\ google_used_in_run > 0 => quota_op.ok

\* the step is the field write of a key
C26_FieldWrite == pc = "write" /\ pc' = "loop"

C27_Fetched == pc = "providers" /\ content = None /\ content' # None

\* the URL fetched at such a step was in the set before only if every
\* usable URL offered was
C27_Avoided(offered) ==
    C27_Fetched =>
        (content'[1][2] \in used_urls => Range(offered) \subseteq used_urls)

C27_Step ==
    /\ (pc = "idle" /\ pc' # "idle") => used_urls' = {}
    /\ used_urls' # used_urls =>
           /\ C27_Fetched
           /\ caught' = None
           /\ used_urls' = used_urls \cup {content'[1][2]}
    /\ (pc = "providers" /\ caught' # None) => used_urls' = used_urls
    /\ \A o \in SearchOutcomes(SearchResults) :
           TryDdg(o[1], o[2], o[3], o[4]) => C27_Avoided(UsableUrls(o[3]))
    /\ \A o \in SearchOutcomes(UrlLists) :
           TryYahoo(o[1], o[2], o[3], o[4]) => C27_Avoided(o[3])
    /\ \A o \in SearchOutcomes(SearchResults) :
           TryGoogle(o[1], o[2], o[3], o[4]) =>
               C27_Avoided(UsableUrls(o[3]))

\* C27: the set is empty when a run starts; it changes only at a provider's
\* turn whose download returned, and then by the URL downloaded; a turn that
\* raised leaves it as it was; and each of the three search providers picks
\* against this one set: the URL it fetches is one already in the set only
\* when every usable URL it was offered is in the set.
C27_AfterDownload == [][C27_Step]_vars

\* Google served the first note; for the second note a turn raised and then
\* ddg fetched a URL other than the one used for the first note
C27_Witness ==
    /\ pc = "write"
    /\ i = 2
    /\ google_used_in_run = 1
    /\ last_error # None
    /\ content # None
    /\ content[1][1] = "ddg"
    /\ Cardinality(used_urls) = 2

\* with these answers the Nadeshiko branch of the note in hand raises: the
\* search does, or the download of an image or audio file it goes for
C28_Raises(search, it, dl_img, dl_aud) ==
    /\ nadeshiko_api_key
    /\ \/ search = "raise"
       \/ /\ search = "found"
          /\ \/ /\ Strip(it.image) # <<>>
                /\ ImageField \in DOMAIN note
                /\ dl_img # "ok"
             \/ /\ Strip(it.audio) # <<>>
                /\ AudioField \in DOMAIN note
                /\ dl_aud # "ok"

C28_Step ==
    /\ \A o \in NadeOutcomes :
           (Nadeshiko(o[1], o[2], o[3], o[4], o[5])
                /\ C28_Raises(o[1], o[3], o[4], o[5])) =>
               /\ UNCHANGED <<store, updated>>
               /\ last_error' # None
               /\ pc' = "write"
    /\ (provider_mode = "nadeshiko" /\ pc = "write") =>
           UNCHANGED <<store, updated>>
    /\ (provider_mode = "nadeshiko" /\ store' # store) =>
           /\ pc = "nadeshiko"
           /\ pc' = "loop"
           /\ last_error' = None
           /\ store' = (nid :> note') @@ store

\* C28: in Nadeshiko mode a key whose search or whose image or audio
\* download raises leaves the stored notes and updated as they were, in the
\* branch and in the step after it, whatever was set on the note in memory
\* before; the store changes only at the end of a branch that raised
\* nothing, and then by the note in hand.
C28_AllOrNothing == [][C28_Step]_vars

\* the audio download raised after the sentence and the image tag were set
\* on the note in memory: the note is not in the store and updated is 0
C28_Witness ==
    /\ provider_mode = "nadeshiko"
    /\ pc = "write"
    /\ i = 1
    /\ last_error # None
    /\ SentenceField \in DOMAIN note
    /\ note[SentenceField] = <<"bun">>
    /\ ImageField \in DOMAIN note
    /\ note[ImageField] # <<>>
    /\ note[ImageField] # OldText
    /\ nid \notin DOMAIN store
    /\ updated = 0

\* the call of generate_images is over
C29_Over == ga.pc \in {"returned", "raised"}

C29_Calls ==
    /\ Len(ga.sent) <= 2
    /\ ga.pc = "retry" =>
           /\ Len(ga.sent) = 1
           /\ ga.exc # None
           /\ \/ Mentions(ga.exc[1], "PersonGeneration")
              \/ Mentions(ga.exc[1], "person_generation")
    /\ Len(ga.sent) = 2 =>
           /\ C29_Over
           /\ "person_generation" \notin ga.sent[2]
           /\ ga.sent[2] = ga.sent[1] \ {"person_generation"}
    /\ C29_Over => Len(ga.sent) >= 1

C29_Step ==
    /\ (ga.pc = "first" /\ ga'.pc = "raised") =>
           /\ ga'.exc # None
           /\ ~Mentions(ga'.exc[1], "PersonGeneration")
           /\ ~Mentions(ga'.exc[1], "person_generation")
           /\ Len(ga'.sent) = 1
    /\ (ga.pc = "first" /\ ga'.pc = "retry") => Len(ga'.sent) = 1
    /\ \A o \in BackendOutcomes :
           (GenRetry(o[1], o[2], o[3]) /\ o[1] = "raise") =>
               /\ ga'.pc = "raised"
               /\ ga'.exc = Some(o[3])
    /\ C29_Over => UNCHANGED ga

\* C29: a call of generate_images sends at most two requests to the backend;
\* the second is sent only after the first raised with a message that holds
\* "PersonGeneration" or "person_generation", and its config is the first
\* one's without person_generation; a first failure with another message
\* leaves generate_images at once with that exception, and what the second
\* request raises leaves it too.
C29_AtMostTwice == []C29_Calls /\ [][C29_Step]_vars

\* the first request held person_generation and was refused for it, the
\* second went out without it and failed with another message, which
\* generate_images raised
C29_Witness ==
    /\ ga.pc = "raised"
    /\ Len(ga.sent) = 2
    /\ "person_generation" \in ga.sent[1]
    /\ "person_generation" \notin ga.sent[2]
    /\ ga.exc = Some(<<"quota", "exceeded">>)

\* the places in a provider's results whose URL is there and whose download
\* returns
C30_Good(results) ==
    {j \in 1..Len(results) : results[j].url # <<>> /\ results[j].ok}

\* the number of files such results give a provider that was asked for
\* limit: one for each good place, or with seen tracking one for each URL
\* at a good place, and never more than limit
C30_Yield(results, limit, track) ==
    LET good == IF track
                THEN Cardinality({results[j].url : j \in C30_Good(results)})
                ELSE Cardinality(C30_Good(results))
    IN  IF good < limit THEN good ELSE limit

\* the fetcher has saved no more than was asked for, and has called the
\* providers in the order's sequence
C30_Within ==
    cli_pc # "off" =>
        /\ saved >= 0
        /\ saved <= count
        /\ Len(cli_called) <= cli_pos
        /\ \A a, b \in 1..Len(cli_called) :
               a < b =>
                   \E c, d \in 1..Len(provider_order) :
                       /\ c < d
                       /\ provider_order[c] = cli_called[a]
                       /\ provider_order[d] = cli_called[b]

C30_Step ==
    /\ cli_called' # cli_called =>
           /\ saved < count
           /\ cli_pos <= Len(provider_order)
           /\ cli_called' = Append(cli_called, provider_order[cli_pos])
    /\ \A o \in CliOutcomes :
           o[1] = "return" =>
               /\ CliDdg(o[1], o[2]) =>
                      /\ saved' = saved + C30_Yield(o[2], count - saved, TRUE)
                      /\ cli_pc' = "main"
               /\ CliYahoo(o[1], o[2]) =>
                      /\ saved' = saved + C30_Yield(o[2], count - saved, TRUE)
                      /\ cli_pc' = "main"
               /\ (CliPexels(o[1], o[2]) /\ pexels_api_key) =>
                      /\ saved' = saved + C30_Yield(o[2], count - saved,
                                                    FALSE)
                      /\ cli_pc' = "main"
               /\ (CliGoogle(o[1], o[2]) /\ google_client) =>
                      /\ saved' = saved + C30_Yield(o[2], count - saved,
                                                    FALSE)
                      /\ cli_pc' = "main"

\* C30: the fetcher's saved never exceeds count; a provider is called only
\* while saved < count, and it is the next one of the order; its turn adds
\* one file for each of its results that has a URL and whose download
\* returns, failed downloads passed over, up to count - saved and no
\* further; and the loop goes on after it.
C30_NeverOverCount == []C30_Within /\ [][C30_Step]_vars

\* two were asked for, the first provider called saved one and the second
\* the other one, and the fetcher ended
C30_Witness ==
    /\ cli_pc = "done"
    /\ count = 2
    /\ saved = 2
    /\ cli_pos = 3
    /\ Len(cli_called) = 2

====
